---- MODULE Spec2Model ----
(***************************************************************************)
(* Model of the qwen-analyzer RAG pipeline: RAGSystem (src/src/rag.ts),    *)
(* OllamaClient (src/src/ollama.ts) and the part of PersonalizationManager *)
(* (src/src/personalization.ts) that askQuestion reads.                    *)
(*                                                                         *)
(* Characters of a question are Unicode code points (integers), so that    *)
(* toLowerCase, \s, \b and the punctuation class are computed as           *)
(* JavaScript computes them.                                               *)
(***************************************************************************)
EXTENDS Integers, Sequences, FiniteSets, TLC

VARIABLES
  corpusFile,      \* content of the corpus file on disk (./data/error-logs.json)
  cacheFile,       \* the persisted cache file (./data/.cache/<name>.embeddings.json)
  allLogs,         \* RAGSystem.allLogs
  embeddedLogs,    \* RAGSystem.embeddedLogs, the in-memory index
  personalization, \* RAGSystem.personalization is set
  profile,         \* PersonalizationManager.profile
  pc,              \* position of the loadAndIndexLogs call in progress, or "idle"
  currentHash,     \* loadAndIndexLogs: const currentHash
  loopI,           \* loadAndIndexLogs: the loop variable i (0-based)
  embedReq,        \* embedding requests issued and not yet answered, oldest first
  result,          \* how the last loadAndIndexLogs call ended: none, ok, rejected
  err,             \* the error the last rejected loadAndIndexLogs call carried
  askPc,           \* position of the askQuestion call in progress, or "idle"
  question,        \* askQuestion: the question argument
  intent,          \* askQuestion: the branch the call took
  answer,          \* askQuestion: what the call returned
  askResult,       \* how the askQuestion call ended: none, ok, rejected
  askErr,          \* the error a rejected askQuestion call carried
  chatReq,         \* chat requests issued and not yet answered
  hist,            \* history of the calls, for stating the properties
  call,            \* the call in progress of a method called on its own, and its arguments
  stream,          \* OllamaClient.chat: the chunks read, the onToken calls, fullResponse
  ret              \* what the last call of a method called on its own returned

vars == <<corpusFile, cacheFile, allLogs, embeddedLogs, personalization, profile,
          pc, currentHash, loopI, embedReq, result, err,
          askPc, question, intent, answer, askResult, askErr, chatReq, hist,
          call, stream, ret>>

envVars == <<corpusFile, cacheFile>>
ragVars == <<allLogs, embeddedLogs>>
perVars == <<personalization, profile>>
loadVars == <<pc, currentHash, loopI, result>>
askVars == <<askPc, question, intent, answer, askResult, askErr, chatReq>>
fnVars == <<call, stream, ret>>

-----------------------------------------------------------------------------
(* Bounds of the model *)

MaxRuns == 3        \* loadAndIndexLogs calls in a behaviour
MaxEvents == 2      \* corpus rewrites, cache losses and new sessions in a behaviour
MaxParts == 3       \* phrases a generated question is made of

-----------------------------------------------------------------------------
(* Data *)


RECURSIVE SeqsUpTo(_, _)
SeqsUpTo(S, n) ==
  IF n = 0 THEN { <<>> }
  ELSE LET shorter == SeqsUpTo(S, n - 1)
       IN  shorter \cup { Append(s, x) : s \in { t \in shorter : Len(t) = n - 1 }, x \in S }

Payment == [service |-> "payment", error_type |-> "Timeout"]
Auth == [service |-> "auth", error_type |-> "AuthFailed"]

\* A corpus file: the records it lists and the layout of its bytes. Two files
\* with the same records and another layout differ in their bytes only.
CorpusContents ==
  { [ logs |-> <<>>, layout |-> "compact" ],
    [ logs |-> << Payment, Auth >>, layout |-> "compact" ],
    [ logs |-> << Payment, Auth >>, layout |-> "pretty" ],
    [ logs |-> << Auth >>, layout |-> "compact" ] }
NoContent == [ logs |-> <<>>, layout |-> "none" ]

\* number[] returned by the embedding model
Vectors == { <<1, 0>>, <<0, 1>>, <<1, 1>> }

\* number[] of an index entry or of the question in SpecRank: with a zero
\* vector, with two parallel vectors of different length and with a vector of
\* negative cosine among them
RankVectors == Vectors \cup { <<0, 0>>, <<-1, 0>>, <<3, 3>> }

EmbeddingError == "EmbeddingError"
ChatError == "ChatError"
NoError == "none"

-----------------------------------------------------------------------------
(* The files *)

\* crypto.createHash("md5").update(content).digest("hex"): a digest of the bytes,
\* taken to be free of collisions on the contents of the model
Md5(content) == [ md5 |-> content ]

\* RAGSystem.getFileHash
getFileHash(file) == Md5(file)

\* JSON.parse(fileContent) of the corpus file: the records, whatever the layout
JsonParseCorpus(content) == content.logs

NoFile(kind) == [ kind |-> kind, fileHash |-> Md5(NoContent), embeddedLogs |-> <<>> ]

\* JSON.stringify(cache, null, 2) of an EmbeddingCache, as the file then reads.
\* The records came out of JSON.parse and the vectors are finite numbers, so
\* JSON.parse of the file gives back the fileHash and the entries written.
JsonStringifyCache(fileHash, index) ==
  [ kind |-> "json", fileHash |-> fileHash, embeddedLogs |-> index ]

NullCache == [ isNull |-> TRUE, fileHash |-> Md5(NoContent), embeddedLogs |-> <<>> ]

\* loadCache with the readFile of a missing file outside the try
loadCacheThrowsOnAbsent(file) == file.kind = "absent"

\* RAGSystem.loadCache: whether the call throws (the catch covers readFile and
\* JSON.parse alike and returns null)
loadCacheThrows(file) == FALSE

\* RAGSystem.loadCache with every file ignored
loadCacheNever(file) == NullCache

\* RAGSystem.loadCache: the parsed file, or null when it cannot be read or parsed
loadCache(file) ==
  IF file.kind = "json"
  THEN [ isNull |-> FALSE, fileHash |-> file.fileHash, embeddedLogs |-> file.embeddedLogs ]
  ELSE NullCache


\* loadAndIndexLogs: if (cache && cache.fileHash === currentHash)
CacheValid(cache, hash) == ~cache.isNull /\ cache.fileHash = hash

\* What mkdir and writeFile can do in saveCache
SaveOutcomes == { "written", "mkdirFailed", "writeFailed", "writeTruncated" }

\* RAGSystem.saveCache: the cache file after the call
saveCache(file, fileHash, index, outcome) ==
  CASE outcome = "written" -> JsonStringifyCache(fileHash, index)
    [] outcome = "writeTruncated" -> NoFile("unparsable")
    [] OTHER -> file

\* saveCache with the catch left out
saveCacheRethrows(outcome) == outcome # "written"

\* RAGSystem.saveCache: whether the call throws (the catch only warns)
saveCacheThrows(outcome) == FALSE

\* RAGSystem.logToText: the text projection of a record
logToText(log) == << "Service: ", log.service, "Error Type: ", log.error_type >>

\* createEmbedding with the error replaced by another one
createEmbeddingWraps(e) == "Error"

\* OllamaClient.createEmbedding: the catch logs and rethrows the same error
createEmbeddingError(e) == e

\* The embedding model (nomic-embed-text): the vector it returns for a text. The
\* same text gets the same vector; the texts of the two records and of a
\* question get three different ones.
EmbeddingOf(req) ==
  CASE req.of = "question" -> <<1, 1>>
    [] req.text = logToText(Payment) -> <<1, 0>>
    [] OTHER -> <<0, 1>>

\* an embedding request: the prompt, and whether it is a record's text or a question
EmbedRequest(of, text) == [ of |-> of, text |-> text ]

\* the records of an index, in order
LogsOf(index) == [ k \in 1..Len(index) |-> index[k].log ]

-----------------------------------------------------------------------------
(* The history variable: counters of the bounded actions and what the calls
   did, recorded for the properties. No action of the program reads it. *)

\* no method is being called on its own, nothing streamed, nothing returned
NoCall == [ fn |-> "none" ]
NoStream == [ onToken |-> FALSE, received |-> <<>>, tokens |-> <<>>, fullResponse |-> <<>> ]
NoRet == [ fn |-> "none" ]

NotSaved == [ valid |-> FALSE, content |-> NoContent, index |-> <<>> ]

HistInit ==
  [ runs |-> 0, events |-> 0,
    embedCalls |-> 0,            \* embedding requests issued by the last loadAndIndexLogs
    cacheBefore |-> NoFile("absent"),  \* the cache file when that call began
    indexBefore |-> <<>>,        \* the in-memory index when that call began
    readContent |-> NoContent,   \* the corpus content that call parsed
    hashContent |-> NoContent,   \* the corpus content that call fingerprinted
    cacheHit |-> FALSE,          \* that call took its index from the cache
    saveStatus |-> "none",       \* none, written, or failed: that call's saveCache
    saved |-> NotSaved,          \* the entry of the last cache write, while the file holds it
    startSaved |-> NotSaved,     \* saved, when the last call began
    fromCache |-> 0,             \* leading entries of the index taken from a cache file
    askEmbeds |-> 0,             \* embedding requests issued by the last askQuestion
    askChats |-> 0 ]             \* chat requests issued by the last askQuestion

\* no call is in progress and the caller holds no unread outcome
Idle == pc = "idle" /\ askPc = "idle" /\ askResult = "none"

-----------------------------------------------------------------------------
(* RAGSystem.loadAndIndexLogs, one action per await *)

\* readFile and JSON.parse of the corpus file
LoadStart ==
  /\ Idle
  /\ hist.runs < MaxRuns
  /\ allLogs' = JsonParseCorpus(corpusFile)
  /\ pc' = "hash"
  /\ result' = "none"
  /\ err' = NoError
  /\ hist' = [ hist EXCEPT !.runs = @ + 1, !.embedCalls = 0,
                           !.cacheBefore = cacheFile, !.indexBefore = embeddedLogs,
                           !.readContent = corpusFile, !.hashContent = NoContent,
                           !.cacheHit = FALSE, !.saveStatus = "none",
                           !.startSaved = hist.saved ]
  /\ UNCHANGED fnVars
  /\ UNCHANGED <<envVars, embeddedLogs, perVars, currentHash, loopI, embedReq, askVars>>

\* getFileHash: the file is read a second time
LoadHash ==
  /\ pc = "hash"
  /\ currentHash' = getFileHash(corpusFile)
  /\ pc' = "cache"
  /\ hist' = [ hist EXCEPT !.hashContent = corpusFile ]
  /\ UNCHANGED fnVars
  /\ UNCHANGED <<envVars, ragVars, perVars, loopI, embedReq, result, err, askVars>>

\* loadCache and the validity test
LoadCheckCache ==
  /\ pc = "cache"
  /\ IF loadCacheThrows(cacheFile)
     THEN /\ pc' = "idle"
          /\ result' = "rejected"
          /\ err' = "CacheReadError"
          /\ UNCHANGED <<embeddedLogs, loopI, hist>>
     ELSE LET cache == loadCache(cacheFile)
          IN  IF CacheValid(cache, currentHash)
              THEN /\ embeddedLogs' = cache.embeddedLogs
                   /\ pc' = "idle"
                   /\ result' = "ok"
                   /\ hist' = [ hist EXCEPT !.cacheHit = TRUE,
                                            !.fromCache = Len(cache.embeddedLogs) ]
                   /\ UNCHANGED <<loopI, err>>
              ELSE /\ pc' = "loop"
                   /\ loopI' = 0
                   /\ UNCHANGED <<embeddedLogs, result, err, hist>>
  /\ UNCHANGED fnVars
  /\ UNCHANGED <<envVars, allLogs, perVars, currentHash, embedReq, askVars>>

\* the loop with the requests of all remaining records issued at once
LoadRequestAll ==
  /\ pc = "loop"
  /\ loopI < Len(allLogs)
  /\ embedReq' = embedReq \o [ k \in 1..(Len(allLogs) - loopI) |->
                                EmbedRequest("record", logToText(allLogs[loopI + k])) ]
  /\ pc' = "await"
  /\ hist' = [ hist EXCEPT !.embedCalls = @ + Len(allLogs) - loopI ]
  /\ UNCHANGED fnVars
  /\ UNCHANGED <<envVars, ragVars, perVars, currentHash, loopI, result, err, askVars>>

\* for (let i = 0; i < this.allLogs.length; i++): the request for record i
LoadRequest ==
  /\ pc = "loop"
  /\ loopI < Len(allLogs)
  /\ embedReq' = Append(embedReq, EmbedRequest("record", logToText(allLogs[loopI + 1])))
  /\ pc' = "await"
  /\ hist' = [ hist EXCEPT !.embedCalls = @ + 1 ]
  /\ UNCHANGED fnVars
  /\ UNCHANGED <<envVars, ragVars, perVars, currentHash, loopI, result, err, askVars>>

\* the embedding of record i arrives and is pushed onto this.embeddedLogs
LoadEmbedReturn(v) ==
  /\ pc = "await"
  /\ embedReq # <<>>
  /\ v = EmbeddingOf(Head(embedReq))
  /\ embeddedLogs' = Append(embeddedLogs,
                            [ log |-> allLogs[loopI + 1], embedding |-> v,
                              text |-> logToText(allLogs[loopI + 1]) ])
  /\ embedReq' = Tail(embedReq)
  /\ loopI' = loopI + 1
  /\ pc' = "loop"
  /\ UNCHANGED fnVars
  /\ UNCHANGED <<envVars, allLogs, perVars, currentHash, result, err, askVars, hist>>

\* the embedding request of record i fails: the call rejects
LoadEmbedFail ==
  /\ pc = "await"
  /\ embedReq # <<>>
  /\ embedReq' = Tail(embedReq)
  /\ pc' = "idle"
  /\ result' = "rejected"
  /\ err' = createEmbeddingError(EmbeddingError)
  /\ UNCHANGED fnVars
  /\ UNCHANGED <<envVars, ragVars, perVars, currentHash, loopI, askVars, hist>>

\* the loop is over and saveCache(filePath, currentHash) awaits fs.mkdir: the
\* directory is there, the entry is built and fs.writeFile is awaited
LoadMkdir ==
  /\ pc = "loop"
  /\ loopI >= Len(allLogs)
  /\ pc' = "write"
  /\ UNCHANGED fnVars
  /\ UNCHANGED <<envVars, ragVars, perVars, currentHash, loopI, embedReq, result, err,
                 askVars, hist>>

\* saveCache settles: fs.mkdir has failed, or fs.writeFile has written the
\* entry, failed or left a truncated file; the catch warns and the call returns
LoadSave(outcome) ==
  /\ \/ pc = "loop" /\ loopI >= Len(allLogs) /\ outcome = "mkdirFailed"
     \/ pc = "write" /\ outcome # "mkdirFailed"
  /\ cacheFile' = saveCache(cacheFile, currentHash, embeddedLogs, outcome)
  /\ pc' = "idle"
  /\ IF saveCacheThrows(outcome)
     THEN result' = "rejected" /\ err' = "CacheWriteError"
     ELSE result' = "ok" /\ UNCHANGED err
  /\ hist' = [ hist EXCEPT !.saveStatus = IF outcome = "written" THEN "written" ELSE "failed",
                 !.saved = CASE outcome = "written" ->
                                  [ valid |-> TRUE, content |-> hist.hashContent,
                                    index |-> embeddedLogs ]
                             [] outcome = "writeTruncated" -> NotSaved
                             [] OTHER -> @ ]
  /\ UNCHANGED fnVars
  /\ UNCHANGED <<corpusFile, ragVars, perVars, currentHash, loopI, embedReq, askVars>>

-----------------------------------------------------------------------------
(* The environment *)

\* The user, or another process, rewrites the corpus file: between two calls, or
\* between the two reads of loadAndIndexLogs. (A rewrite later in the call is
\* read by no step of that call: it acts as a rewrite after the call.)
EditCorpus(c) ==
  /\ askPc = "idle"
  /\ askResult = "none"
  /\ pc \in { "idle", "hash" }
  /\ hist.events < MaxEvents
  /\ c # corpusFile
  /\ corpusFile' = c
  /\ hist' = [ hist EXCEPT !.events = @ + 1 ]
  /\ UNCHANGED fnVars
  /\ UNCHANGED <<cacheFile, ragVars, perVars, pc, currentHash, loopI, embedReq,
                 result, err, askVars>>

\* the cache file is deleted, made unreadable or damaged between two calls
DamageCache(kind) ==
  /\ Idle
  /\ hist.events < MaxEvents
  /\ cacheFile.kind # kind
  /\ cacheFile' = NoFile(kind)
  /\ hist' = [ hist EXCEPT !.events = @ + 1, !.saved = NotSaved ]
  /\ UNCHANGED fnVars
  /\ UNCHANGED <<corpusFile, ragVars, perVars, pc, currentHash, loopI, embedReq,
                 result, err, askVars>>

\* a new session: new RAGSystem() (rag.ts 33-40), the files stay
NewSession ==
  /\ Idle
  /\ hist.events < MaxEvents
  /\ hist.runs > 0
  /\ allLogs' = <<>>
  /\ embeddedLogs' = <<>>
  /\ personalization' = FALSE
  /\ profile' = [ loaded |-> FALSE, name |-> <<>>, useEmoji |-> FALSE ]
  /\ result' = "none"
  /\ err' = NoError
  /\ hist' = [ hist EXCEPT !.events = @ + 1, !.fromCache = 0, !.embedCalls = 0,
                           !.cacheHit = FALSE, !.saveStatus = "none" ]
  /\ UNCHANGED fnVars
  /\ UNCHANGED <<envVars, pc, currentHash, loopI, embedReq, askVars>>

-----------------------------------------------------------------------------
(* Strings and regular expressions. A string is a sequence of code points. *)

\* String.prototype.toLowerCase on the Latin and Cyrillic letters
ToLowerCase(c) ==
  CASE c \in 65..90 -> c + 32
    [] c \in 1040..1071 -> c + 32
    [] c = 1025 -> 1105
    [] OTHER -> c

\* Canonicalize of a RegExp with the i flag and without the u flag: toUpperCase
Canonicalize(c) ==
  CASE c \in 97..122 -> c - 32
    [] c \in 1072..1103 -> c - 32
    [] c = 1105 -> 1025
    [] OTHER -> c

\* \s, and the characters String.prototype.trim removes
IsSpace(c) ==
  c \in {9, 10, 11, 12, 13, 32, 160, 5760, 8232, 8233, 8239, 8287, 12288, 65279}
        \cup (8192..8202)

\* the characters . does not match
IsLineTerminator(c) == c \in {10, 13, 8232, 8233}

\* \w of a RegExp without the u flag: the ASCII letters, the digits and _
IsWordChar(c) == c \in (48..57) \cup (65..90) \cup {95} \cup (97..122)

\* the class [!?.,:;()"'`] of askQuestion
Punctuation == {33, 63, 46, 44, 58, 59, 40, 41, 34, 39, 96}

\* \b at position pos (before s[pos]): exactly one neighbour is a word character
IsWordBoundary(s, pos) ==
  LET before == pos > 1 /\ IsWordChar(s[pos - 1])
      after == pos <= Len(s) /\ IsWordChar(s[pos])
  IN  before # after

\* Items of a pattern. An item that matches a character lists the characters it
\* matches, and their canonical forms for a test with the i flag.
Lit(w) == [ k \in 1..Len(w) |-> [ t |-> "set", cs |-> {w[k]}, ci |-> {Canonicalize(w[k])} ] ]
Cls(S) == << [ t |-> "set", cs |-> S, ci |-> { Canonicalize(c) : c \in S } ] >>
WsPlus == << [ t |-> "ws+", cs |-> {}, ci |-> {} ] >>
AnyStar == << [ t |-> "any*", cs |-> {}, ci |-> {} ] >>
WordBoundary == << [ t |-> "wb", cs |-> {}, ci |-> {} ] >>

\* whether items k.. of the pattern match s from position pos on
RECURSIVE MatchAt(_, _, _, _, _)
MatchAt(re, k, s, pos, ci) ==
  IF k > Len(re) THEN TRUE
  ELSE LET it == re[k]
       IN  CASE it.t = "set" ->
                  /\ pos <= Len(s)
                  /\ IF ci THEN Canonicalize(s[pos]) \in it.ci ELSE s[pos] \in it.cs
                  /\ MatchAt(re, k + 1, s, pos + 1, ci)
             [] it.t = "ws+" ->
                  /\ pos <= Len(s)
                  /\ IsSpace(s[pos])
                  /\ \/ MatchAt(re, k + 1, s, pos + 1, ci)
                     \/ MatchAt(re, k, s, pos + 1, ci)
             [] it.t = "any*" ->
                  \/ MatchAt(re, k + 1, s, pos, ci)
                  \/ /\ pos <= Len(s)
                     /\ ~IsLineTerminator(s[pos])
                     /\ MatchAt(re, k, s, pos + 1, ci)
             [] it.t = "wb" ->
                  /\ IsWordBoundary(s, pos)
                  /\ MatchAt(re, k + 1, s, pos, ci)

\* RegExp.prototype.test of an alternation of patterns
RegExpTest(alternatives, s, ci) ==
  \E re \in alternatives : \E pos \in 1..(Len(s) + 1) : MatchAt(re, 1, s, pos, ci)

\* String.prototype.trim
RECURSIVE TrimStart(_)
TrimStart(s) == IF s # <<>> /\ IsSpace(Head(s)) THEN TrimStart(Tail(s)) ELSE s
RECURSIVE TrimEnd(_)
TrimEnd(s) ==
  IF s # <<>> /\ IsSpace(s[Len(s)]) THEN TrimEnd(SubSeq(s, 1, Len(s) - 1)) ELSE s
Trim(s) == TrimEnd(TrimStart(s))

MapSeq(s, Op(_)) == [ k \in 1..Len(s) |-> Op(s[k]) ]

\* .replace(/[!?.,:;()"'`]/g, "")
IsNotPunctuation(c) == c \notin Punctuation
RemovePunctuation(s) == SelectSeq(s, IsNotPunctuation)

\* .replace(/\s+/g, " "): every run of white space becomes one space
RECURSIVE CollapseFrom(_, _)
CollapseFrom(s, k) ==
  IF k > Len(s) THEN <<>>
  ELSE IF IsSpace(s[k])
       THEN IF k > 1 /\ IsSpace(s[k - 1]) THEN CollapseFrom(s, k + 1)
                                          ELSE <<32>> \o CollapseFrom(s, k + 1)
       ELSE <<s[k]>> \o CollapseFrom(s, k + 1)
CollapseSpaces(s) == CollapseFrom(s, 1)

\* askQuestion: const q = raw.trim().toLowerCase().replace(...).replace(...)
Normalize(raw) == CollapseSpaces(RemovePunctuation(MapSeq(Trim(raw), ToLowerCase)))

\* askQuestion: the three expressions of isNameQuery, (как\s+)? written out
NamePatterns ==
  { \* \bкак\s+меня\s+зовут\b
    WordBoundary \o Lit(<<1082, 1072, 1082>>) \o WsPlus \o Lit(<<1084, 1077, 1085, 1103>>) \o WsPlus \o Lit(<<1079, 1086, 1074, 1091, 1090>>) \o WordBoundary,
    \* \bменя\s+зовут\b
    WordBoundary \o Lit(<<1084, 1077, 1085, 1103>>) \o WsPlus \o Lit(<<1079, 1086, 1074, 1091, 1090>>) \o WordBoundary,
    \* \bмо[её]\s+имя\b
    WordBoundary \o Lit(<<1084, 1086>>) \o Cls({1077, 1105}) \o WsPlus \o Lit(<<1080, 1084, 1103>>) \o WordBoundary,
    \* \bимя\s+профил[яе]\b
    WordBoundary \o Lit(<<1080, 1084, 1103>>) \o WsPlus \o Lit(<<1087, 1088, 1086, 1092, 1080, 1083>>) \o Cls({1103, 1077}) \o WordBoundary }

\* askQuestion: the expression of isPersonalQuery
PersonalPatterns ==
  { \* расскажи.*обо мне
    Lit(<<1088, 1072, 1089, 1089, 1082, 1072, 1078, 1080>>) \o AnyStar \o Lit(<<1086, 1073, 1086, 32, 1084, 1085, 1077>>),
    \* кто я
    Lit(<<1082, 1090, 1086, 32, 1103>>),
    \* что.*знаешь.*обо мне
    Lit(<<1095, 1090, 1086>>) \o AnyStar \o Lit(<<1079, 1085, 1072, 1077, 1096, 1100>>) \o AnyStar \o Lit(<<1086, 1073, 1086, 32, 1084, 1085, 1077>>),
    \* мой профиль
    Lit(<<1084, 1086, 1081, 32, 1087, 1088, 1086, 1092, 1080, 1083, 1100>>),
    \* моя информация
    Lit(<<1084, 1086, 1103, 32, 1080, 1085, 1092, 1086, 1088, 1084, 1072, 1094, 1080, 1103>>),
    \* какое.*имя.*пользовател
    Lit(<<1082, 1072, 1082, 1086, 1077>>) \o AnyStar \o Lit(<<1080, 1084, 1103>>) \o AnyStar \o Lit(<<1087, 1086, 1083, 1100, 1079, 1086, 1074, 1072, 1090, 1077, 1083>>),
    \* какое.*имя.*профил
    Lit(<<1082, 1072, 1082, 1086, 1077>>) \o AnyStar \o Lit(<<1080, 1084, 1103>>) \o AnyStar \o Lit(<<1087, 1088, 1086, 1092, 1080, 1083>>),
    \* как.*меня.*зовут
    Lit(<<1082, 1072, 1082>>) \o AnyStar \o Lit(<<1084, 1077, 1085, 1103>>) \o AnyStar \o Lit(<<1079, 1086, 1074, 1091, 1090>>),
    \* моё имя
    Lit(<<1084, 1086, 1105, 32, 1080, 1084, 1103>>),
    \* мое имя
    Lit(<<1084, 1086, 1077, 32, 1080, 1084, 1103>>) }

\* askQuestion: the expression of isStatisticalQuery
StatisticalPatterns ==
  { \* сколько
    Lit(<<1089, 1082, 1086, 1083, 1100, 1082, 1086>>),
    \* какая.*чаще
    Lit(<<1082, 1072, 1082, 1072, 1103>>) \o AnyStar \o Lit(<<1095, 1072, 1097, 1077>>),
    \* какой.*больше
    Lit(<<1082, 1072, 1082, 1086, 1081>>) \o AnyStar \o Lit(<<1073, 1086, 1083, 1100, 1096, 1077>>),
    \* какая.*самая
    Lit(<<1082, 1072, 1082, 1072, 1103>>) \o AnyStar \o Lit(<<1089, 1072, 1084, 1072, 1103>>),
    \* топ
    Lit(<<1090, 1086, 1087>>),
    \* статистика
    Lit(<<1089, 1090, 1072, 1090, 1080, 1089, 1090, 1080, 1082, 1072>>) }


\* askQuestion: isNameQuery, tested on the normalized question q
isNameQuery(raw) == RegExpTest(NamePatterns, Normalize(raw), FALSE)

\* askQuestion: isPersonalQuery, tested on the question as given, i flag
isPersonalQuery(raw) == RegExpTest(PersonalPatterns, raw, TRUE)

\* askQuestion: isStatisticalQuery, tested on the question as given, i flag
isStatisticalQuery(raw) == RegExpTest(StatisticalPatterns, raw, TRUE)

-----------------------------------------------------------------------------
(* Questions *)

\* the phrases questions are made of: "как меня зовут", " и ",
\* "сколько всего ошибок", "Кто", "я", " ", ", ", "x" and "?"
Q ==
  [ nameAsk |-> <<1082, 1072, 1082, 32, 1084, 1077, 1085, 1103, 32, 1079, 1086, 1074,
                  1091, 1090>>,
    and |-> <<32, 1080, 32>>,
    howMany |-> <<1089, 1082, 1086, 1083, 1100, 1082, 1086, 32, 1074, 1089, 1077, 1075,
                  1086, 32, 1086, 1096, 1080, 1073, 1086, 1082>>,
    who |-> <<1050, 1090, 1086>>,
    i |-> <<1103>>,
    space |-> <<32>>,
    comma |-> <<44, 32>>,
    latin |-> <<120>>,
    mark |-> <<63>> ]

Phrases == { Q[f] : f \in DOMAIN Q }

RECURSIVE Concat(_)
Concat(ps) == IF ps = <<>> THEN <<>> ELSE Head(ps) \o Concat(Tail(ps))

\* every question made of at most MaxParts phrases
Questions == { Concat(ps) : ps \in SeqsUpTo(Phrases, MaxParts) }

\* the mixed question of the specification: "как меня зовут и сколько всего ошибок"
MixedQuestion == Q.nameAsk \o Q.and \o Q.howMany

\* the question asked in a session of Spec: "топ"
SessionQuestions == { <<1090, 1086, 1087>> }

-----------------------------------------------------------------------------
(* Profiles *)

\* Strings of profile files: names of services, of error types and of the user,
\* the role, the experience and the two preferences, as UTF-16 code units
Name ==
  [
    auth |-> <<97, 117, 116, 104>>,   \* "auth"
    authUpper |-> <<65, 85, 84, 72>>,   \* "AUTH"
    authMixed |-> <<65, 117, 116, 104>>,   \* "Auth"
    au |-> <<97, 117>>,   \* "au"
    authz |-> <<97, 117, 116, 104, 122>>,   \* "authz"
    db |-> <<100, 98>>,   \* "db"
    oom |-> <<111, 111, 109>>,   \* "oom"
    oomMixed |-> <<79, 111, 109>>,   \* "Oom"
    payment |-> <<112, 97, 121, 109, 101, 110, 116>>,   \* "payment"
    timeout |-> <<116, 105, 109, 101, 111, 117, 116>>,   \* "timeout"
    ivan |-> <<73, 118, 97, 110>>,   \* "Ivan"
    sre |-> <<83, 82, 69>>,   \* "SRE"
    years |-> <<53, 32, 121, 101, 97, 114, 115>>,   \* "5 years"
    brief |-> <<98, 114, 105, 101, 102>>,   \* "brief"
    advanced |-> <<97, 100, 118, 97, 110, 99, 101, 100>> ]   \* "advanced"

\* workingHours.start and workingHours.end as written in profile files:
\* "09:00", "9:00" and "18:00"
Time ==
  [ t0900 |-> <<48, 57, 58, 48, 48>>,  t900 |-> <<57, 58, 48, 48>>,  t1800 |-> <<49, 56, 58, 48, 48>> ]

NoProfile == [ loaded |-> FALSE, name |-> <<>>, useEmoji |-> FALSE ]

\* UserProfile: the fields the answers of askQuestion are built from. The first
\* is responsible for "payment"; the second for "AUTH", with "timeout" critical;
\* the third has no name and lists nothing.
Profiles ==
  LET ivan == [ loaded |-> TRUE, name |-> Name.ivan, role |-> Name.sre,
                experience |-> Name.years, useEmoji |-> TRUE,
                answerStyle |-> Name.brief, technicalLevel |-> Name.advanced,
                services |-> << Name.payment >>, criticalErrors |-> <<>>,
                workingHours |-> [ start |-> Time.t0900, end |-> Time.t1800 ] ]
  IN  { ivan,
        [ ivan EXCEPT !.useEmoji = FALSE, !.services = << Name.authUpper >>,
                      !.criticalErrors = << Name.timeout >> ],
        [ ivan EXCEPT !.name = <<>>, !.useEmoji = FALSE, !.services = <<>> ],
        [ ivan EXCEPT !.name = <<>> ] }

\* String.prototype.toLowerCase
LowerCase(str) == [ k \in 1..Len(str) |-> ToLowerCase(str[k]) ]

\* isRelevantToUser with the names compared as they are written
isRelevantToUserExact(prof, serviceName, errorType) ==
  \/ \E k \in 1..Len(prof.services) : prof.services[k] = serviceName
  \/ \E k \in 1..Len(prof.criticalErrors) : prof.criticalErrors[k] = errorType

\* PersonalizationManager.isRelevantToUser, with a profile loaded
isRelevantToUser(prof, serviceName, errorType) ==
  \/ \E k \in 1..Len(prof.services) :
       LowerCase(prof.services[k]) = LowerCase(serviceName)
  \/ \E k \in 1..Len(prof.criticalErrors) :
       LowerCase(prof.criticalErrors[k]) = LowerCase(errorType)

\* Array.prototype.join of an array of strings
RECURSIVE Join(_, _)
Join(list, separator) ==
  IF list = <<>> THEN <<>>
  ELSE IF Len(list) = 1 THEN list[1]
  ELSE list[1] \o separator \o Join(Tail(list), separator)

\* PersonalizationManager.getUserContext, with a profile loaded: the three
\* lines of the name, the role and the experience, of the services and of the
\* critical errors, each list replaced by "не указано" when it is empty
getUserContext(prof) ==
  LET unspecified == <<1085, 1077, 32, 1091, 1082, 1072, 1079, 1072, 1085, 1086>>
      servicesStr == IF Len(prof.services) > 0 THEN Join(prof.services, <<44, 32>>)
                     ELSE unspecified
      errorsStr == IF Len(prof.criticalErrors) > 0
                   THEN Join(prof.criticalErrors, <<44, 32>>)
                   ELSE unspecified
  IN  \* "Пользователь: "
      <<1055, 1086, 1083, 1100, 1079, 1086, 1074, 1072, 1090, 1077, 1083, 1100, 58, 32>>
      \o prof.name \o <<44, 32>> \o prof.role \o <<32, 40>> \o prof.experience
      \* ")", the line feed and "Ответственность: "
      \o <<41, 10, 1054, 1090, 1074, 1077, 1090, 1089, 1090, 1074, 1077, 1085, 1085, 1086,
           1089, 1090, 1100, 58, 32>>
      \o servicesStr
      \* the line feed and "Критичные ошибки: "
      \o <<10, 1050, 1088, 1080, 1090, 1080, 1095, 1085, 1099, 1077, 32, 1086, 1096, 1080,
           1073, 1082, 1080, 58, 32>>
      \o errorsStr

\* PersonalizationManager.getProfile, and askQuestion's
\* this.personalization?.getProfile?.() ?? null
getProfile(attached, prof) == IF attached THEN prof ELSE NoProfile

\* RAGSystem.setPersonalization
SetPersonalization ==
  /\ Idle
  /\ ~personalization
  /\ personalization' = TRUE
  /\ UNCHANGED fnVars
  /\ UNCHANGED <<envVars, ragVars, profile, loadVars, embedReq, err, askVars, hist>>

\* PersonalizationManager.loadProfile of a valid profile file: the profile the
\* manager holds, if any, is replaced
LoadProfile(p) ==
  /\ Idle
  /\ profile' = p
  /\ UNCHANGED fnVars
  /\ UNCHANGED <<envVars, ragVars, personalization, loadVars, embedReq, err, askVars, hist>>

-----------------------------------------------------------------------------
(* Numbers: IEEE 754 double precision, as the Number type of the code has it.
   A natural number of any size is the sequence of its digits to the base
   2^15, lowest first and without leading zeros; a finite double is
   sign * m * 2^e with 2^52 <= m < 2^53, or zero; NaN is apart. *)

Base == 2 ^ 15

RECURSIVE BigOf(_)
BigOf(n) == IF n = 0 THEN <<>> ELSE << n % Base >> \o BigOf(n \div Base)

RECURSIVE BigNorm(_)
BigNorm(a) ==
  IF a = <<>> THEN <<>>
  ELSE IF a[Len(a)] = 0 THEN BigNorm(SubSeq(a, 1, Len(a) - 1)) ELSE a

\* a + b + carry, from digit k on
RECURSIVE BigAddFrom(_, _, _, _)
BigAddFrom(a, b, k, carry) ==
  IF k > Len(a) /\ k > Len(b) THEN (IF carry = 0 THEN <<>> ELSE << carry >>)
  ELSE LET x == (IF k <= Len(a) THEN a[k] ELSE 0) + (IF k <= Len(b) THEN b[k] ELSE 0) + carry
       IN  << x % Base >> \o BigAddFrom(a, b, k + 1, x \div Base)
BigAdd(a, b) == BigAddFrom(a, b, 1, 0)

\* a - b - borrow for a >= b, from digit k on
RECURSIVE BigSubFrom(_, _, _, _)
BigSubFrom(a, b, k, borrow) ==
  IF k > Len(a) THEN <<>>
  ELSE LET x == a[k] - (IF k <= Len(b) THEN b[k] ELSE 0) - borrow
       IN  << (x + Base) % Base >> \o BigSubFrom(a, b, k + 1, IF x < 0 THEN 1 ELSE 0)
BigSub(a, b) == BigNorm(BigSubFrom(a, b, 1, 0))

\* the sign of a - b
RECURSIVE BigCompareFrom(_, _, _)
BigCompareFrom(a, b, k) ==
  IF k = 0 THEN 0
  ELSE IF a[k] # b[k] THEN (IF a[k] > b[k] THEN 1 ELSE -1)
  ELSE BigCompareFrom(a, b, k - 1)
BigCompare(a, b) ==
  IF Len(a) # Len(b) THEN (IF Len(a) > Len(b) THEN 1 ELSE -1)
  ELSE BigCompareFrom(a, b, Len(a))

\* a * d + carry for a digit d, from digit k on
RECURSIVE BigTimesDigit(_, _, _, _)
BigTimesDigit(a, d, k, carry) ==
  IF k > Len(a) THEN (IF carry = 0 THEN <<>> ELSE << carry >>)
  ELSE LET x == a[k] * d + carry
       IN  << x % Base >> \o BigTimesDigit(a, d, k + 1, x \div Base)

RECURSIVE BigTimesFrom(_, _, _)
BigTimesFrom(a, b, k) ==
  IF k > Len(b) THEN <<>>
  ELSE BigAdd(BigTimesDigit(a, b[k], 1, 0),
              LET rest == BigTimesFrom(a, b, k + 1)
              IN  IF rest = <<>> THEN <<>> ELSE << 0 >> \o rest)
BigTimes(a, b) == BigNorm(BigTimesFrom(a, b, 1))

\* 2^k, floor(a / 2), and the number of binary digits of a
RECURSIVE BigPow2(_)
BigPow2(k) == IF k < 15 THEN << 2 ^ k >> ELSE << 0 >> \o BigPow2(k - 15)
RECURSIVE BigHalfFrom(_, _)
BigHalfFrom(a, k) ==
  IF k > Len(a) THEN <<>>
  ELSE << a[k] \div 2 + (IF k < Len(a) THEN (a[k + 1] % 2) * (Base \div 2) ELSE 0) >>
       \o BigHalfFrom(a, k + 1)
BigHalf(a) == BigNorm(BigHalfFrom(a, 1))
RECURSIVE BitLength(_)
BitLength(n) == IF n = 0 THEN 0 ELSE 1 + BitLength(n \div 2)
BigBitLength(a) == IF a = <<>> THEN 0 ELSE 15 * (Len(a) - 1) + BitLength(a[Len(a)])

\* Long division by binary digits: k steps from [ r |-> n, dd |-> d * 2^(k - 1),
\* q |-> 0 ] leave floor(n / d) in q and the remainder in r, for a quotient
\* below 2^k; the steps end when the shifted divisor is used up.
RECURSIVE BigDivide(_, _)
BigDivide(st, k) ==
  IF k = 0 \/ st.dd = <<>> THEN st
  ELSE BigDivide(IF BigCompare(st.r, st.dd) >= 0
                 THEN [ r |-> BigSub(st.r, st.dd), dd |-> BigHalf(st.dd),
                        q |-> BigAdd(BigAdd(st.q, st.q), << 1 >>) ]
                 ELSE [ r |-> st.r, dd |-> BigHalf(st.dd), q |-> BigAdd(st.q, st.q) ],
                 k - 1)

\* The double nearest to num / den, ties to the even significand (the rounding
\* of every operation of the Number type), for natural numbers num, den > 0
RoundToDouble(num, den) ==
  LET s0 == 53 + BigBitLength(den) - BigBitLength(num)
      n0 == IF s0 > 0 THEN BigTimes(num, BigPow2(s0)) ELSE num
      d0 == IF s0 < 0 THEN BigTimes(den, BigPow2(-s0)) ELSE den
      \* n0 / d0 is between 2^52 and 2^54
      over == BigCompare(n0, BigTimes(d0, BigPow2(53))) >= 0
      d1 == IF over THEN BigAdd(d0, d0) ELSE d0
      e1 == IF over THEN 1 - s0 ELSE -s0
      qr == BigDivide([ r |-> n0, dd |-> BigTimes(d1, BigPow2(52)), q |-> <<>> ], 53)
      half == BigCompare(BigAdd(qr.r, qr.r), d1)
      up == half > 0 \/ (half = 0 /\ qr.q[1] % 2 = 1)
      m == IF up THEN BigAdd(qr.q, << 1 >>) ELSE qr.q
  IN  IF BigBitLength(m) = 54
      THEN [ nan |-> FALSE, sign |-> 1, m |-> BigHalf(m), e |-> e1 + 1 ]
      ELSE [ nan |-> FALSE, sign |-> 1, m |-> m, e |-> e1 ]

Zero == [ nan |-> FALSE, sign |-> 0, m |-> <<>>, e |-> 0 ]
NaN == [ nan |-> TRUE, sign |-> 0, m |-> <<>>, e |-> 0 ]

\* an integer as a Number: below 2^53 in size, it is a double as it stands
ToNumber(n) ==
  IF n = 0 THEN Zero
  ELSE LET size == IF n < 0 THEN -n ELSE n
           len == BitLength(size)
       IN  [ nan |-> FALSE, sign |-> IF n < 0 THEN -1 ELSE 1,
             m |-> BigTimes(BigOf(size), BigPow2(53 - len)), e |-> len - 53 ]

\* The square root by binary digits: from [ r |-> 0, i |-> k - 1 ] the steps
\* leave floor(sqrt(n)) in r, for a root below 2^k
RECURSIVE BigRoot(_, _)
BigRoot(n, st) ==
  IF st.i < 0 THEN st
  ELSE LET t == BigAdd(st.r, BigPow2(st.i))
       IN  BigRoot(n, [ r |-> IF BigCompare(BigTimes(t, t), n) <= 0 THEN t ELSE st.r,
                        i |-> st.i - 1 ])

\* Math.sqrt of a natural number: the double nearest to the root
MathSqrt(n) ==
  IF n = 0 THEN Zero
  ELSE LET len == BitLength(n)
           k2 == IF len % 2 = 1 THEN 105 - len ELSE 106 - len
           scaled == BigTimes(BigOf(n), BigPow2(k2))
           r == BigRoot(scaled, [ r |-> <<>>, i |-> 52 ]).r
           \* the root is above r + 1/2 exactly when r * r + r < scaled
           up == BigCompare(BigAdd(BigTimes(r, r), r), scaled) < 0
           m == IF up THEN BigAdd(r, << 1 >>) ELSE r
       IN  IF BigBitLength(m) = 54
           THEN [ nan |-> FALSE, sign |-> 1, m |-> BigHalf(m), e |-> 1 - k2 \div 2 ]
           ELSE [ nan |-> FALSE, sign |-> 1, m |-> m, e |-> -(k2 \div 2) ]

\* x * y of two Numbers that are not NaN
Times(x, y) ==
  IF x.sign = 0 \/ y.sign = 0 THEN Zero
  ELSE LET p == RoundToDouble(BigTimes(x.m, y.m), << 1 >>)
       IN  [ p EXCEPT !.sign = x.sign * y.sign, !.e = @ + x.e + y.e ]

\* x / y of two Numbers that are not NaN: 0 / 0 is NaN (no other division by
\* zero occurs: a zero magnitude makes the dot product zero)
Divide(x, y) ==
  IF y.sign = 0 THEN NaN
  ELSE IF x.sign = 0 THEN Zero
  ELSE LET q == RoundToDouble(x.m, y.m)
       IN  [ q EXCEPT !.sign = x.sign * y.sign, !.e = @ + x.e - y.e ]

Sign(x) == IF x > 0 THEN 1 ELSE IF x < 0 THEN -1 ELSE 0

\* the sign of x - y for two Numbers that are not NaN (the difference of two
\* doubles is zero only when they are equal)
Compare(x, y) ==
  IF x.sign # y.sign THEN Sign(x.sign - y.sign)
  ELSE IF x.sign = 0 THEN 0
  ELSE IF x.e # y.e THEN x.sign * Sign(x.e - y.e)
  ELSE x.sign * BigCompare(x.m, y.m)

-----------------------------------------------------------------------------
(* Array.prototype.sort with the comparator (a, b) => b - a *)

\* x - y: NaN if either is, else the sign of the difference
Minus(x, y) ==
  [ nan |-> x.nan \/ y.nan,
    sign |-> IF x.nan \/ y.nan THEN 0 ELSE Compare(x, y) ]

\* The comparator's result as sort reads it: NaN counts as +0
NaNToZero(v) == IF v.nan THEN 0 ELSE v.sign

\* The results of the comparator: c[i][j] is comparefn(element i, element j),
\* the sign of keys[j] - keys[i]
RECURSIVE CompareRow(_, _, _)
CompareRow(keys, i, j) ==
  IF j = 0 THEN <<>>
  ELSE Append(CompareRow(keys, i, j - 1), NaNToZero(Minus(keys[j], keys[i])))
RECURSIVE CompareRows(_, _)
CompareRows(keys, i) ==
  IF i = 0 THEN <<>>
  ELSE Append(CompareRows(keys, i - 1), CompareRow(keys, i, Len(keys)))

\* Whether the comparator, given as the table c of its results, is consistent
\* on the n elements: "compares equal" is transitive and agrees with the order
\* (ECMAScript, Array.prototype.sort)
ConsistentComparator(n, c) ==
  \A i, j, k \in 1..n :
    /\ (c[i][j] = 0 /\ c[j][k] = 0) => c[i][k] = 0
    /\ (c[i][j] = 0 /\ c[j][k] < 0) => c[i][k] < 0
    /\ (c[i][j] < 0 /\ c[j][k] = 0) => c[i][k] < 0

\* The stable sort: element i comes after every element the comparator puts
\* before it and after every earlier element that compares equal
StableSort(n, c) ==
  LET place == [ i \in 1..n |->
                   Cardinality({ j \in 1..n : c[j][i] < 0 \/ (c[j][i] = 0 /\ j < i) }) + 1 ]
  IN  [ r \in 1..n |-> CHOOSE i \in 1..n : place[i] = r ]

\* The orders sort can leave the elements in, as a sequence of their positions
\* before the sort. With a consistent comparator sort is stable; otherwise the
\* order is implementation-defined.
SortOutcomes(keys) ==
  LET n == Len(keys)
      c == CompareRows(keys, n)
  IN  IF ConsistentComparator(n, c)
      THEN { StableSort(n, c) }
      ELSE Permutations(1..n)

-----------------------------------------------------------------------------
(* RAGSystem.cosineSimilarity and RAGSystem.findRelevantLogs *)

\* a.reduce((sum, val, i) => sum + val * b[i], 0)
RECURSIVE DotFrom(_, _, _)
DotFrom(a, b, i) == IF i > Len(a) THEN 0 ELSE a[i] * b[i] + DotFrom(a, b, i + 1)
DotProduct(a, b) == DotFrom(a, b, 1)

\* RAGSystem.cosineSimilarity: dotProduct / (magnitudeA * magnitudeB), with the
\* two roots, the product and the quotient each rounded to a double; with a
\* zero magnitude the division is 0 / 0, NaN. (The sums of the products of
\* integer components are exact.)
cosineSimilarity(a, b) ==
  LET dotProduct == ToNumber(DotProduct(a, b))
      magnitudeA == MathSqrt(DotProduct(a, a))
      magnitudeB == MathSqrt(DotProduct(b, b))
  IN  Divide(dotProduct, Times(magnitudeA, magnitudeB))

\* cosineSimilarity of every two vectors of the model, computed once
Cosines ==
  { [ a |-> a, b |-> b, similarity |-> cosineSimilarity(a, b) ] : a, b \in RankVectors }
Similarity(a, b) == (CHOOSE c \in Cosines : c.a = a /\ c.b = b).similarity

Min(a, b) == IF a < b THEN a ELSE b

\* findRelevantLogs: the similarities of the indexed records, in index order
RECURSIVE Similarities(_, _)
Similarities(questionEmbedding, index) ==
  IF index = <<>> THEN <<>>
  ELSE Append(Similarities(questionEmbedding, SubSeq(index, 1, Len(index) - 1)),
              Similarity(questionEmbedding, index[Len(index)].embedding))

\* findRelevantLogs without the slice
findRelevantLogsUnsliced(questionEmbedding, index, topK) ==
  { [ order |-> [ k \in 1..Len(index) |-> k ], logs |-> LogsOf(index) ] }

\* RAGSystem.findRelevantLogs after the embedding of the question: what the call
\* can return. order lists the index positions of the returned records.
findRelevantLogs(questionEmbedding, index, topK) ==
  LET n == Min(topK, Len(index))
  IN  { [ order |-> SubSeq(p, 1, n),
          logs |-> [ k \in 1..n |-> index[p[k]].log ] ] :
        p \in SortOutcomes(Similarities(questionEmbedding, index)) }

\* askQuestion: findRelevantLogs(question, 8)
AskTopK == 8

-----------------------------------------------------------------------------
(* RAGSystem.getStatistics *)

\* Property names a plain object {} inherits from Object.prototype as methods
\* (each name of Object.getOwnPropertyNames(Object.prototype) but __proto__)
InheritedKeys ==
  { "constructor", "toString", "toLocaleString", "valueOf", "hasOwnProperty",
    "isPrototypeOf", "propertyIsEnumerable", "__defineGetter__", "__defineSetter__",
    "__lookupGetter__", "__lookupSetter__" }

\* A Record<string, number> built from {}: its own entries in insertion order
\* (no key of the model is an integer index). An entry holds a number n, or,
\* when number is FALSE, the text of an inherited value followed by n digits 1.
HasOwn(obj, key) == \E k \in 1..Len(obj) : obj[k].key = key

\* obj[key] = (obj[key] || 0) + 1
Increment(obj, key) ==
  IF HasOwn(obj, key)
  THEN LET k == CHOOSE k \in 1..Len(obj) : obj[k].key = key
       IN  [ obj EXCEPT ![k].n = @ + 1 ]
  ELSE IF key = "__proto__" THEN obj
  ELSE Append(obj, [ key |-> key, number |-> key \notin InheritedKeys, n |-> 1 ])

\* this.allLogs.forEach: the table of the counts of one field
RECURSIVE CountFrom(_, _, _)
CountFrom(keys, k, obj) ==
  IF k > Len(keys) THEN obj ELSE CountFrom(keys, k + 1, Increment(obj, keys[k]))
CountBy(keys) == CountFrom(keys, 1, <<>>)

\* The values of the entries as b - a reads them: a text is NaN
RECURSIVE ToNumbers(_)
ToNumbers(table) ==
  IF table = <<>> THEN <<>>
  ELSE Append(ToNumbers(SubSeq(table, 1, Len(table) - 1)),
              IF table[Len(table)].number THEN ToNumber(table[Len(table)].n) ELSE NaN)

\* Object.entries(table).sort(([, a], [, b]) => b - a)
SortedEntries(table) ==
  { [ r \in 1..Len(table) |-> table[p[r]] ] : p \in SortOutcomes(ToNumbers(table)) }

\* RAGSystem.getStatistics: the total and the two tables the text lists
getStatistics(logs) ==
  { [ total |-> Len(logs), errorTypes |-> e, services |-> sv ] :
      e \in SortedEntries(CountBy([ k \in 1..Len(logs) |-> logs[k].error_type ])),
      sv \in SortedEntries(CountBy([ k \in 1..Len(logs) |-> logs[k].service ])) }

-----------------------------------------------------------------------------
(* The prompts of askQuestion *)

\* askQuestion: const userContext
userContext(attached, prof) ==
  IF attached THEN [ given |-> TRUE, text |-> getUserContext(prof) ]
  ELSE [ given |-> FALSE, text |-> <<>> ]

\* askQuestion: systemPrompt. Its fixed text is left out; kept are the mode, the
\* user context, the statistics block and the "(k из n)" line of the analysis mode.
systemPrompt(branch, attached, prof, statistics, relevantLogs, logs) ==
  [ mode |-> IF branch = "Statistical" THEN "STATISTICS" ELSE "ANALYSIS",
    userContext |-> userContext(attached, prof),
    statistics |-> statistics,
    contextLogs |-> IF branch = "Statistical" THEN <<>>
                    ELSE << Len(relevantLogs), Len(logs) >> ]

\* the user message with the retrieved records rendered in both modes
userMessageWithExamples(branch, raw, relevantLogs) ==
  [ question |-> raw, logExamples |-> relevantLogs ]

\* askQuestion: userMessage. In the statistics mode `QUESTION:\n${question}`.trim(),
\* in the analysis mode the question and the rendered records (context).
userMessage(branch, raw, relevantLogs) ==
  IF branch = "Statistical"
  THEN [ question |-> TrimEnd(raw), logExamples |-> <<>> ]
  ELSE [ question |-> raw, logExamples |-> relevantLogs ]

-----------------------------------------------------------------------------
(* RAGSystem.askQuestion *)

NoAnswer == [ kind |-> "none", text |-> <<>> ]

\* The three tests of askQuestion and the normalized form, computed once for
\* every question of the model ("exit " is one a session of SpecCli asks)
Tested ==
  [ q \in Questions \cup SessionQuestions \cup { <<101, 120, 105, 116, 32>> } |->
      [ isNameQuery |-> isNameQuery(q),
        isPersonalQuery |-> isPersonalQuery(q),
        isStatisticalQuery |-> isStatisticalQuery(q),
        q |-> Normalize(q) ] ]

\* the branches with the personal-profile answer left out
askBranchWithoutPersonal(raw, attached, prof) ==
  LET t == Tested[raw]
  IN  IF t.isNameQuery THEN "NameLookup"
      ELSE IF t.isStatisticalQuery THEN "Statistical" ELSE "Analytical"

\* askQuestion: the branch a question takes, tested in the order of the code
askBranch(raw, attached, prof) ==
  LET t == Tested[raw]
  IN  IF t.isNameQuery THEN "NameLookup"
      ELSE IF t.isPersonalQuery /\ attached /\ getProfile(attached, prof).loaded
           THEN "PersonalProfile"
      ELSE IF t.isStatisticalQuery THEN "Statistical"
      ELSE "Analytical"

\* The fixed texts of the answers askQuestion builds itself, as UTF-16 code units
Literal ==
  [
    \* the person emoji and a space
    person |-> <<55357, 56420, 32>>,
    \* "Имя в профиле не задано."
    nameNotSet |-> <<1048, 1084, 1103, 32, 1074, 32, 1087, 1088, 1086, 1092, 1080, 1083, 1077,
                     32, 1085, 1077, 32, 1079, 1072, 1076, 1072, 1085, 1086, 46>>,
    \* "Вот что я знаю о тебе:" and two line feeds
    heading |-> <<1042, 1086, 1090, 32, 1095, 1090, 1086, 32, 1103, 32, 1079, 1085, 1072,
                  1102, 32, 1086, 32, 1090, 1077, 1073, 1077, 58, 10, 10>>,
    \* two line feeds and "Рабочие часы: "
    hours |-> <<10, 10, 1056, 1072, 1073, 1086, 1095, 1080, 1077, 32, 1095, 1072, 1089, 1099,
                58, 32>>,
    \* a line feed and "Стиль ответов: "
    style |-> <<10, 1057, 1090, 1080, 1083, 1100, 32, 1086, 1090, 1074, 1077, 1090, 1086,
                1074, 58, 32>>,
    \* a line feed and "Технический уровень: "
    level |-> <<10, 1058, 1077, 1093, 1085, 1080, 1095, 1077, 1089, 1082, 1080, 1081, 32,
                1091, 1088, 1086, 1074, 1077, 1085, 1100, 58, 32>>,
    \* a space and the check mark
    check |-> <<32, 9989>>,
    \* " В твоих сервисах ("
    calm |-> <<32, 1042, 32, 1090, 1074, 1086, 1080, 1093, 32, 1089, 1077, 1088, 1074, 1080,
               1089, 1072, 1093, 32, 40>>,
    \* ") всё спокойно!"
    allCalm |-> <<41, 32, 1074, 1089, 1105, 32, 1089, 1087, 1086, 1082, 1086, 1081, 1085,
                  1086, 33>>,
    \* a space and the warning sign with its variation selector
    warning |-> <<32, 9888, 65039>>,
    \* " ВАЖНО ДЛЯ ТЕБЯ: "
    important |-> <<32, 1042, 1040, 1046, 1053, 1054, 32, 1044, 1051, 1071, 32, 1058, 1045,
                    1041, 1071, 58, 32>>,
    \* " проблем"
    problem |-> <<32, 1087, 1088, 1086, 1073, 1083, 1077, 1084>>,
    \* " в твоих сервисах ("
    inServices |-> <<32, 1074, 32, 1090, 1074, 1086, 1080, 1093, 32, 1089, 1077, 1088, 1074,
                     1080, 1089, 1072, 1093, 32, 40>> ]

\* The UTF-16 code units of the service and error type of a record
CodeUnits(str) ==
  CASE str = "payment" -> Name.payment
    [] str = "auth" -> Name.auth
    [] str = "Timeout" -> <<84, 105, 109, 101, 111, 117, 116>>
    [] str = "AuthFailed" -> <<65, 117, 116, 104, 70, 97, 105, 108, 101, 100>>

\* `${n}` of a length: the decimal digits
RECURSIVE NumberToString(_)
NumberToString(n) ==
  IF n < 10 THEN << 48 + n >> ELSE Append(NumberToString(n \div 10), 48 + (n % 10))

\* this.allLogs.filter((log) => isRelevantToUser(log.service, log.error_type))
RelevantLogs(prof, logs) ==
  SelectSeq(logs, LAMBDA log :
    isRelevantToUser(prof, CodeUnits(log.service), CodeUnits(log.error_type)))

\* RAGSystem.getPersonalizedSummary: empty without a manager or a profile, else
\* the line that says how many records concern the services of the user
getPersonalizedSummary(attached, prof, logs) ==
  IF ~attached THEN <<>>
  ELSE IF ~getProfile(attached, prof).loaded THEN <<>>
  ELSE LET userServices == Join(prof.services, <<44, 32>>)
           n == Len(RelevantLogs(prof, logs))
       IN  IF n = 0
           THEN <<10>> \o (IF prof.useEmoji THEN Literal.check ELSE <<>>)
                \o Literal.calm \o userServices \o Literal.allCalm
           ELSE <<10>> \o (IF prof.useEmoji THEN Literal.warning ELSE <<>>)
                \o Literal.important \o NumberToString(n) \o Literal.problem
                \o (IF n = 1 THEN <<1072>> ELSE <<>>)
                \o Literal.inServices \o userServices \o <<41>>

\* the name branch without the emoji of preferences.useEmoji
nameAnswerPlain(prof) ==
  IF prof.loaded /\ prof.name # <<>>
  THEN [ kind |-> "name", text |-> prof.name ]
  ELSE [ kind |-> "nameNotSet", text |-> Literal.nameNotSet ]

\* askQuestion, name branch: the profile name, or the 'name not set' message
nameAnswer(prof) ==
  IF prof.loaded /\ prof.name # <<>>
  THEN [ kind |-> "name",
         text |-> (IF prof.useEmoji THEN Literal.person ELSE <<>>) \o prof.name ]
  ELSE [ kind |-> "nameNotSet", text |-> Literal.nameNotSet ]

\* askQuestion, personal branch: the heading, getUserContext(), the working
\* hours, the two preferences and getPersonalizedSummary()
personalAnswer(attached, prof, logs) ==
  [ kind |-> "personal",
    text |-> (IF prof.useEmoji THEN Literal.person ELSE <<>>)
             \o Literal.heading
             \o getUserContext(prof)
             \o Literal.hours \o prof.workingHours.start \o <<32, 45, 32>>
             \o prof.workingHours.end
             \o Literal.style \o prof.answerStyle
             \o Literal.level \o prof.technicalLevel
             \o <<10, 10>>
             \o getPersonalizedSummary(attached, prof, logs) ]

\* the response returned without a call of onToken
forEachOnTokenSkipped(units, given) == <<>>

\* if (onToken) response.split("").forEach(onToken): the calls of onToken, one
\* for each UTF-16 code unit of the response (the emoji goes out as two)
forEachOnToken(units, given) ==
  IF given THEN [ k \in 1..Len(units) |-> << units[k] >> ] ELSE <<>>

\* chat with onToken never called
onTokenCallsNone(tokens, token, given) == tokens

\* chat: if (onToken) { onToken(token); } -- the calls of onToken so far
onTokenCalls(tokens, token, given) == IF given THEN Append(tokens, token) ELSE tokens

\* askQuestion(question, onToken), with or without the callback, up to its
\* first await: classification, and either the answer of the name or personal
\* branch or the embedding request of findRelevantLogs
AskQuestion(q, given) ==
  /\ Idle
  /\ question' = q
  /\ LET branch == askBranch(q, personalization, profile)
         prof == getProfile(personalization, profile)
     IN  /\ intent' = branch
         /\ CASE branch = "NameLookup" ->
                   /\ answer' = nameAnswer(prof)
                   /\ stream' = [ NoStream EXCEPT !.onToken = given,
                        !.tokens = forEachOnToken(nameAnswer(prof).text, given) ]
                   /\ askResult' = "ok"
                   /\ hist' = [ hist EXCEPT !.askEmbeds = 0, !.askChats = 0 ]
                   /\ UNCHANGED <<askPc, embedReq>>
              [] branch = "PersonalProfile" ->
                   /\ answer' = personalAnswer(personalization, prof, allLogs)
                   /\ stream' = [ NoStream EXCEPT !.onToken = given,
                        !.tokens = forEachOnToken(
                          personalAnswer(personalization, prof, allLogs).text, given) ]
                   /\ askResult' = "ok"
                   /\ hist' = [ hist EXCEPT !.askEmbeds = 0, !.askChats = 0 ]
                   /\ UNCHANGED <<askPc, embedReq>>
              [] OTHER ->
                   /\ answer' = NoAnswer
                   /\ stream' = [ NoStream EXCEPT !.onToken = given ]
                   /\ askResult' = "none"
                   /\ askPc' = "embed"
                   /\ embedReq' = Append(embedReq, EmbedRequest("question", q))
                   /\ hist' = [ hist EXCEPT !.askEmbeds = 1, !.askChats = 0 ]
  /\ UNCHANGED <<call, ret>>
  /\ UNCHANGED <<envVars, ragVars, perVars, loadVars, err, askErr, chatReq>>

\* the embedding of the question arrives; the records are ranked
\* (findRelevantLogs) and the prompt is assembled, where
\* this.personalization.getUserContext() throws without a loaded profile, and
\* the chat request is issued
AskEmbedReturn(v) ==
  /\ askPc = "embed"
  /\ embedReq # <<>>
  /\ v = EmbeddingOf(Head(embedReq))
  /\ embedReq' = Tail(embedReq)
  /\ IF personalization /\ ~profile.loaded
     THEN /\ askPc' = "idle"
          /\ askResult' = "rejected"
          /\ askErr' = "Profile not loaded. Call loadProfile() first."
          /\ UNCHANGED <<chatReq, hist>>
     ELSE /\ askPc' = "chat"
          /\ \E rel \in findRelevantLogs(v, embeddedLogs, AskTopK),
                st \in getStatistics(allLogs) :
               chatReq' = Append(chatReq,
                 [ systemPrompt |-> systemPrompt(intent, personalization, profile, st,
                                                 rel.logs, allLogs),
                   userMessage |-> userMessage(intent, question, rel.logs) ])
          /\ hist' = [ hist EXCEPT !.askChats = @ + 1 ]
          /\ UNCHANGED <<askResult, askErr>>
  /\ UNCHANGED fnVars
  /\ UNCHANGED <<envVars, ragVars, perVars, loadVars, err, question, intent, answer>>

\* chat with the error replaced by another one
chatErrorWraps(e) == "Error"

\* OllamaClient.chat: the catch logs and rethrows the same error
chatError(e) == e

\* the embedding request of the question fails
AskEmbedFail ==
  /\ askPc = "embed"
  /\ embedReq # <<>>
  /\ embedReq' = Tail(embedReq)
  /\ askPc' = "idle"
  /\ askResult' = "rejected"
  /\ askErr' = createEmbeddingError(EmbeddingError)
  /\ UNCHANGED fnVars
  /\ UNCHANGED <<envVars, ragVars, perVars, loadVars, err, question, intent, answer,
                 chatReq, hist>>

\* OllamaClient.chat: await this.ollama.chat({..., stream: true}) returns the
\* stream; fullResponse is empty
AskChatResponse ==
  /\ askPc = "chat"
  /\ chatReq # <<>>
  /\ chatReq' = Tail(chatReq)
  /\ askPc' = "stream"
  /\ UNCHANGED fnVars
  /\ UNCHANGED <<envVars, ragVars, perVars, loadVars, embedReq, err, askResult, askErr,
                 question, intent, answer, hist>>

\* one turn of for await (const part of response) within askQuestion: the next
\* chunk of the streamed text is added to fullResponse and handed to onToken
AskChatChunk(text) ==
  /\ askPc = "stream"
  /\ Len(stream.received) < Len(text)
  /\ stream.received = SubSeq(text, 1, Len(stream.received))
  /\ LET token == text[Len(stream.received) + 1]
     IN  stream' = [ stream EXCEPT !.received = Append(@, token),
                                   !.fullResponse = @ \o token,
                                   !.tokens = onTokenCalls(@, token, stream.onToken) ]
  /\ UNCHANGED <<call, ret>>
  /\ UNCHANGED <<envVars, ragVars, perVars, loadVars, embedReq, err, askVars, hist>>

\* the stream has ended: chat returns fullResponse, which askQuestion returns
AskChatReturn(text) ==
  /\ askPc = "stream"
  /\ stream.received = text
  /\ askPc' = "idle"
  /\ askResult' = "ok"
  /\ answer' = [ kind |-> "chat", text |-> stream.fullResponse ]
  /\ UNCHANGED fnVars
  /\ UNCHANGED <<envVars, ragVars, perVars, loadVars, embedReq, err, askErr, question,
                 intent, chatReq, hist>>

\* the chat request fails, or the stream fails after the chunks read so far:
\* the catch of chat rethrows and askQuestion rejects
AskChatFail ==
  /\ \/ askPc = "chat" /\ chatReq # <<>> /\ chatReq' = Tail(chatReq)
     \/ askPc = "stream" /\ UNCHANGED chatReq
  /\ askPc' = "idle"
  /\ askResult' = "rejected"
  /\ askErr' = chatError(ChatError)
  /\ UNCHANGED fnVars
  /\ UNCHANGED <<envVars, ragVars, perVars, loadVars, embedReq, err, question, intent,
                 answer, hist>>

\* the chunks the chat model streams for an answer: "H", "i!" and the empty string
ChatTexts == { << <<72>>, <<105, 33>>, <<>> >> }

\* The caller has the outcome of the call (CLI.interactiveMode prints it and
\* prompts again); the locals of the call are gone
AskConsume ==
  /\ askPc = "idle"
  /\ askResult # "none"
  /\ question' = <<>>
  /\ intent' = "none"
  /\ answer' = NoAnswer
  /\ askResult' = "none"
  /\ askErr' = NoError
  /\ hist' = [ hist EXCEPT !.askEmbeds = 0, !.askChats = 0 ]
  /\ stream' = NoStream
  /\ UNCHANGED <<call, ret>>
  /\ UNCHANGED <<envVars, ragVars, perVars, loadVars, embedReq, err, askPc, chatReq>>

-----------------------------------------------------------------------------
(* Spec: sessions of indexing and questions over the files *)

Init ==
  /\ corpusFile \in CorpusContents
  /\ cacheFile = NoFile("absent")
  /\ allLogs = <<>>
  /\ embeddedLogs = <<>>
  /\ personalization = FALSE
  /\ profile = NoProfile
  /\ pc = "idle"
  /\ currentHash = Md5(NoContent)
  /\ loopI = 0
  /\ embedReq = <<>>
  /\ result = "none"
  /\ err = NoError
  /\ askPc = "idle"
  /\ question = <<>>
  /\ intent = "none"
  /\ answer = NoAnswer
  /\ askResult = "none"
  /\ askErr = NoError
  /\ chatReq = <<>>
  /\ hist = HistInit
  /\ call = NoCall
  /\ stream = NoStream
  /\ ret = NoRet

Next ==
  \/ LoadStart
  \/ LoadHash
  \/ LoadCheckCache
  \/ LoadRequest
  \/ \E v \in Vectors : LoadEmbedReturn(v)
  \/ LoadEmbedFail
  \/ LoadMkdir
  \/ \E o \in SaveOutcomes : LoadSave(o)
  \/ \E c \in CorpusContents : EditCorpus(c)
  \/ \E k \in { "absent", "unreadable", "unparsable" } : DamageCache(k)
  \/ NewSession
  \/ Idle /\ \E q \in SessionQuestions : AskQuestion(q, TRUE)
  \/ \E v \in Vectors : AskEmbedReturn(v)
  \/ AskEmbedFail
  \/ AskChatResponse
  \* the answer "H", streamed as one chunk
  \/ AskChatChunk(<< <<72>> >>)
  \/ AskChatReturn(<< <<72>> >>)
  \/ AskChatFail
  \/ AskConsume

Spec == Init /\ [][Next]_vars

-----------------------------------------------------------------------------
(* SpecAsk: the questions put to one RAGSystem, with and without a profile *)

\* the index of a corpus, as loadAndIndexLogs builds it on a new instance
IndexOf(logs) ==
  [ k \in 1..Len(logs) |->
      [ log |-> logs[k],
        embedding |-> EmbeddingOf(EmbedRequest("record", logToText(logs[k]))),
        text |-> logToText(logs[k]) ] ]

InitAsk ==
  /\ corpusFile \in { c \in CorpusContents : c.layout = "compact" /\ Len(c.logs) # 1 }
  /\ cacheFile = NoFile("absent")
  /\ allLogs = JsonParseCorpus(corpusFile)
  /\ embeddedLogs = IndexOf(allLogs)
  /\ personalization = FALSE
  /\ profile = NoProfile
  /\ pc = "idle"
  /\ currentHash = getFileHash(corpusFile)
  /\ loopI = Len(allLogs)
  /\ embedReq = <<>>
  /\ result = "ok"
  /\ err = NoError
  /\ askPc = "idle"
  /\ question = <<>>
  /\ intent = "none"
  /\ answer = NoAnswer
  /\ askResult = "none"
  /\ askErr = NoError
  /\ chatReq = <<>>
  /\ hist = [ HistInit EXCEPT !.runs = 1, !.embedCalls = Len(allLogs),
                              !.readContent = corpusFile, !.hashContent = corpusFile,
                              !.saveStatus = "failed" ]
  /\ call = NoCall
  /\ stream = NoStream
  /\ ret = NoRet

NextAsk ==
  \/ SetPersonalization
  \/ \E p \in Profiles : LoadProfile(p)
  \/ Idle /\ \E q \in Questions, given \in BOOLEAN : AskQuestion(q, given)
  \/ \E v \in Vectors : AskEmbedReturn(v)
  \/ AskEmbedFail
  \/ AskChatResponse
  \/ \E t \in ChatTexts : AskChatChunk(t)
  \/ \E t \in ChatTexts : AskChatReturn(t)
  \/ AskChatFail
  \/ AskConsume

SpecAsk == InitAsk /\ [][NextAsk]_vars

-----------------------------------------------------------------------------
(* SpecStats: getStatistics called on a session that has a corpus loaded *)

MaxStatLogs == 3    \* records of a corpus in SpecStats

\* no call is in progress and none has been made since the corpus was loaded
AtRest ==
  /\ pc = "idle"
  /\ loopI = Len(allLogs)
  /\ embedReq = <<>>
  /\ result = "ok"
  /\ err = NoError
  /\ askPc = "idle"
  /\ question = <<>>
  /\ intent = "none"
  /\ answer = NoAnswer
  /\ askResult = "none"
  /\ askErr = NoError
  /\ chatReq = <<>>
  /\ hist = [ HistInit EXCEPT !.runs = 1 ]
  /\ call = NoCall
  /\ stream = NoStream
  /\ ret = NoRet

\* records whose service or error type is also a property name of Object.prototype
StatRecords ==
  { Payment, Auth,
    [ service |-> "payment", error_type |-> "AuthFailed" ],
    [ service |-> "constructor", error_type |-> "Timeout" ],
    [ service |-> "auth", error_type |-> "__proto__" ] }

InitStats ==
  /\ corpusFile \in { [ logs |-> l, layout |-> "compact" ] :
                      l \in SeqsUpTo(StatRecords, MaxStatLogs) }
  /\ cacheFile = NoFile("absent")
  /\ allLogs = JsonParseCorpus(corpusFile)
  /\ embeddedLogs = IndexOf(allLogs)
  /\ personalization = FALSE
  /\ profile = NoProfile
  /\ currentHash = getFileHash(corpusFile)
  /\ AtRest

\* a call of RAGSystem.getStatistics
GetStatistics ==
  /\ pc = "idle" /\ askPc = "idle"
  /\ \E st \in getStatistics(allLogs) : ret' = [ fn |-> "getStatistics", value |-> st ]
  /\ UNCHANGED <<envVars, ragVars, perVars, loadVars, embedReq, err, askVars, hist,
                 call, stream>>

NextStats == GetStatistics

SpecStats == InitStats /\ [][NextStats]_vars

-----------------------------------------------------------------------------
(* SpecRank: findRelevantLogs called on an index of any vectors *)

MaxIndexed == 3     \* records of the index in SpecRank
MaxTopK == 4        \* largest topK passed to findRelevantLogs in SpecRank

\* index entries: one for each vector, of a payment or of an auth record
RankEntries ==
  { [ log |-> (IF v[2] = 0 THEN Auth ELSE Payment),
      embedding |-> v,
      text |-> logToText(IF v[2] = 0 THEN Auth ELSE Payment) ] : v \in RankVectors }

InitRank ==
  /\ embeddedLogs \in SeqsUpTo(RankEntries, MaxIndexed)
  /\ allLogs = LogsOf(embeddedLogs)
  /\ corpusFile = [ logs |-> allLogs, layout |-> "compact" ]
  /\ cacheFile = JsonStringifyCache(getFileHash(corpusFile), embeddedLogs)
  /\ personalization = FALSE
  /\ profile = NoProfile
  /\ currentHash = getFileHash(corpusFile)
  /\ AtRest

\* findRelevantLogs(question, topK) up to its await: the embedding request
FindStart(q, topK) ==
  /\ Idle
  /\ call.fn = "none"
  /\ call' = [ fn |-> "findRelevantLogs", topK |-> topK ]
  /\ embedReq' = Append(embedReq, EmbedRequest("question", q))
  /\ ret' = NoRet
  /\ UNCHANGED <<envVars, ragVars, perVars, loadVars, err, askVars, hist, stream>>

\* the embedding of the question arrives: similarities, sort, slice
FindReturn(v) ==
  /\ call.fn = "findRelevantLogs"
  /\ embedReq # <<>>
  /\ embedReq' = Tail(embedReq)
  /\ call' = NoCall
  /\ \E found \in findRelevantLogs(v, embeddedLogs, call.topK) :
       ret' = [ fn |-> "findRelevantLogs", rejected |-> FALSE, topK |-> call.topK,
                questionEmbedding |-> v, order |-> found.order, logs |-> found.logs ]
  /\ UNCHANGED <<envVars, ragVars, perVars, loadVars, err, askVars, hist, stream>>

\* the embedding request fails: findRelevantLogs rejects
FindFail ==
  /\ call.fn = "findRelevantLogs"
  /\ embedReq # <<>>
  /\ embedReq' = Tail(embedReq)
  /\ call' = NoCall
  /\ ret' = [ fn |-> "findRelevantLogs", rejected |-> TRUE, topK |-> call.topK,
              questionEmbedding |-> <<0, 0>>, order |-> <<>>, logs |-> <<>> ]
  /\ UNCHANGED <<envVars, ragVars, perVars, loadVars, err, askVars, hist, stream>>

NextRank ==
  \/ \E q \in SessionQuestions, topK \in 0..MaxTopK : FindStart(q, topK)
  \/ \E v \in RankVectors : FindReturn(v)
  \/ FindFail

SpecRank == InitRank /\ [][NextRank]_vars

-----------------------------------------------------------------------------
(* SpecChat: OllamaClient.chat, one action per chunk of the stream *)

MaxChunks == 3      \* chunks of one streamed answer

\* part.message.content of a chunk: "H", "i!" and the empty string
ChunkTexts == { <<72>>, <<105, 33>>, <<>> }

InitChat ==
  /\ corpusFile = [ logs |-> << Payment, Auth >>, layout |-> "compact" ]
  /\ cacheFile = NoFile("absent")
  /\ allLogs = JsonParseCorpus(corpusFile)
  /\ embeddedLogs = IndexOf(allLogs)
  /\ personalization = FALSE
  /\ profile = NoProfile
  /\ currentHash = getFileHash(corpusFile)
  /\ AtRest

\* chat(systemPrompt, userMessage, onToken) up to the request of the stream
ChatStart(given) ==
  /\ Idle
  /\ call.fn = "none"
  /\ call' = [ fn |-> "chat", onToken |-> given ]
  /\ stream' = [ NoStream EXCEPT !.onToken = given ]
  /\ ret' = NoRet
  /\ UNCHANGED <<envVars, ragVars, perVars, loadVars, embedReq, err, askVars, hist>>

\* one turn of for await (const part of response): the chunk is read, added to
\* fullResponse and handed to onToken
ChatChunk(token) ==
  /\ call.fn = "chat"
  /\ Len(stream.received) < MaxChunks
  /\ stream' = [ stream EXCEPT !.received = Append(@, token),
                                !.fullResponse = @ \o token,
                                !.tokens = onTokenCalls(@, token, stream.onToken) ]
  /\ UNCHANGED <<envVars, ragVars, perVars, loadVars, embedReq, err, askVars, hist,
                 call, ret>>

\* the stream ends: return fullResponse
ChatEnd ==
  /\ call.fn = "chat"
  /\ call' = NoCall
  /\ ret' = [ fn |-> "chat", rejected |-> FALSE, onToken |-> call.onToken,
              value |-> stream.fullResponse, error |-> NoError ]
  /\ UNCHANGED <<envVars, ragVars, perVars, loadVars, embedReq, err, askVars, hist,
                 stream>>

\* the request or the stream fails: the catch logs and rethrows
ChatFail ==
  /\ call.fn = "chat"
  /\ call' = NoCall
  /\ ret' = [ fn |-> "chat", rejected |-> TRUE, onToken |-> call.onToken,
              value |-> <<>>, error |-> chatError(ChatError) ]
  /\ UNCHANGED <<envVars, ragVars, perVars, loadVars, embedReq, err, askVars, hist,
                 stream>>

NextChat ==
  \/ \E given \in BOOLEAN : ChatStart(given)
  \/ \E token \in ChunkTexts : ChatChunk(token)
  \/ ChatEnd
  \/ ChatFail

SpecChat == InitChat /\ [][NextChat]_vars

-----------------------------------------------------------------------------
(* SpecPers: PersonalizationManager, its profile and its two tests *)

\* UserProfile with the fields isRelevantToUser and isWorkingHours read
ManagerProfiles ==
  { [ loaded |-> TRUE, name |-> Name.ivan, role |-> Name.sre, experience |-> Name.years,
      useEmoji |-> FALSE, answerStyle |-> Name.brief, technicalLevel |-> Name.advanced,
      services |-> sv, criticalErrors |-> ce, workingHours |-> wh ] :
      sv \in { <<>>, << Name.authMixed >>, << Name.db, Name.authUpper >> },
      ce \in { <<>>, << Name.oomMixed >> },
      wh \in { [ start |-> Time.t0900, end |-> Time.t1800 ],
               [ start |-> Time.t900, end |-> Time.t1800 ],
               [ start |-> Time.t1800, end |-> Time.t0900 ] } }
  \cup
  { [ loaded |-> TRUE, name |-> Name.ivan, role |-> Name.sre, experience |-> Name.years,
      useEmoji |-> TRUE, answerStyle |-> Name.brief, technicalLevel |-> Name.advanced,
      services |-> <<>>, criticalErrors |-> <<>>,
      workingHours |-> [ start |-> Time.t0900, end |-> Time.t1800 ] ] }

\* the fields validateProfile requires, in the order it looks for them
requiredFields ==
  << "name", "role", "experience", "timezone", "preferences", "responsibilities",
     "workingHours" >>

\* A profile file as loadProfile sees it: whether readFile finds it, whether
\* JSON.parse accepts it, and of the parsed value what validateProfile looks at
ProfileFile(p) ==
  [ exists |-> TRUE,
    syntaxOk |-> TRUE,
    kind |-> "object",
    fields |-> { requiredFields[k] : k \in 1..Len(requiredFields) },
    preferences |-> "object",
    responsibilities |-> "object",
    servicesIsArray |-> TRUE,
    criticalErrorsIsArray |-> TRUE,
    profile |-> p ]

\* profile files with any combination of defects
InvalidProfileFiles ==
  LET good == ProfileFile(CHOOSE p \in ManagerProfiles : TRUE)
  IN  ( { [ good EXCEPT !.exists = FALSE, !.syntaxOk = sy ] : sy \in BOOLEAN }
        \cup { [ good EXCEPT !.syntaxOk = FALSE ] }
        \cup { [ good EXCEPT !.kind = kd, !.fields = @ \ missing,
                             !.preferences = pr, !.responsibilities = rs,
                             !.servicesIsArray = sa, !.criticalErrorsIsArray = ca ] :
                 kd \in { "object", "array", "null" },
                 missing \in { {}, { "workingHours" }, { "role", "preferences" } },
                 pr \in { "object", "null" },
                 rs \in { "object", "string" },
                 sa \in BOOLEAN, ca \in BOOLEAN } ) \ { good }

\* v && typeof v === "object" of a parsed JSON value
IsObjectValue(kind) == kind \in { "object", "array" }

\* the own keys of the parsed value among the required names: an array has none
OwnFields(file) == IF file.kind = "object" THEN file.fields ELSE {}

\* validateProfile with the structure checks before the required fields
validateProfilePreferencesFirst(file) ==
  IF ~IsObjectValue(file.kind) THEN "Profile must be an object"
  ELSE IF ~("preferences" \in OwnFields(file) /\ IsObjectValue(file.preferences))
    THEN "Invalid preferences structure"
  ELSE IF \E k \in 1..Len(requiredFields) : requiredFields[k] \notin OwnFields(file)
    THEN "Missing required field: "
           \o requiredFields[CHOOSE k \in 1..Len(requiredFields) :
                /\ requiredFields[k] \notin OwnFields(file)
                /\ \A j \in 1..(k - 1) : requiredFields[j] \in OwnFields(file)]
  ELSE IF ~IsObjectValue(file.responsibilities) THEN "Invalid responsibilities structure"
  ELSE IF ~file.servicesIsArray THEN "responsibilities.services must be an array"
  ELSE IF ~file.criticalErrorsIsArray
    THEN "responsibilities.criticalErrors must be an array"
  ELSE "none"

\* PersonalizationManager.validateProfile: the message of the Error it throws,
\* "none" when it returns. The values of workingHours are not examined.
validateProfile(file) ==
  LET missing == { k \in 1..Len(requiredFields) : requiredFields[k] \notin OwnFields(file) }
  IN  IF ~IsObjectValue(file.kind) THEN "Profile must be an object"
      ELSE IF missing # {}
        THEN "Missing required field: "
               \o requiredFields[CHOOSE k \in missing : \A j \in missing : k <= j]
      ELSE IF ~IsObjectValue(file.preferences) THEN "Invalid preferences structure"
      ELSE IF ~IsObjectValue(file.responsibilities)
        THEN "Invalid responsibilities structure"
      ELSE IF ~file.servicesIsArray THEN "responsibilities.services must be an array"
      ELSE IF ~file.criticalErrorsIsArray
        THEN "responsibilities.criticalErrors must be an array"
      ELSE "none"

\* PersonalizationManager.loadProfile: the message of the Error it rejects
\* with, "none" when it resolves
loadProfile(file) ==
  IF ~file.exists THEN "Profile file not found"
  ELSE IF ~file.syntaxOk THEN "Invalid JSON in profile file"
  ELSE IF validateProfile(file) # "none"
    THEN "Failed to load profile: " \o validateProfile(file)
  ELSE "none"

\* String(n).padStart(2, "0") of an hour or a minute
PadStart2(n) == << 48 + (n \div 10), 48 + (n % 10) >>

\* isWorkingHours: const currentTime, "HH:MM"
CurrentTime(now) == PadStart2(now[1]) \o << 58 >> \o PadStart2(now[2])

\* a <= b of two strings: by code units, a proper prefix first
RECURSIVE StringLessOrEqual(_, _)
StringLessOrEqual(a, b) ==
  IF a = <<>> THEN TRUE
  ELSE IF b = <<>> THEN FALSE
  ELSE IF Head(a) # Head(b) THEN Head(a) < Head(b)
  ELSE StringLessOrEqual(Tail(a), Tail(b))

\* PersonalizationManager.isWorkingHours, with a profile loaded
isWorkingHours(prof, now) ==
  /\ StringLessOrEqual(prof.workingHours.start, CurrentTime(now))
  /\ StringLessOrEqual(CurrentTime(now), prof.workingHours.end)

InitPers ==
  /\ corpusFile = [ logs |-> << Payment, Auth >>, layout |-> "compact" ]
  /\ cacheFile = NoFile("absent")
  /\ allLogs = JsonParseCorpus(corpusFile)
  /\ embeddedLogs = IndexOf(allLogs)
  /\ personalization = FALSE
  /\ profile = NoProfile
  /\ currentHash = getFileHash(corpusFile)
  /\ AtRest

\* if (!this.profile), were it true of every profile
notLoadedAlways(prof) == TRUE

\* if (!this.profile) of getGreeting, getUserContext, isRelevantToUser and
\* isWorkingHours
notLoaded(prof) == ~prof.loaded

\* getGreeting with each bucket closed at its upper hour
getGreetingInclusive(prof, hour) ==
  [ greeting |-> IF hour >= 5 /\ hour <= 12 THEN "morning"
                 ELSE IF hour >= 12 /\ hour <= 18 THEN "afternoon"
                 ELSE IF hour >= 18 /\ hour <= 23 THEN "evening"
                 ELSE "night",
    name |-> prof.name,
    emoji |-> IF prof.useEmoji THEN "wave" ELSE "" ]

\* PersonalizationManager.getGreeting at the local hour, with a profile loaded:
\* which of the four greetings, the name, and whether the emoji follows
getGreeting(prof, hour) ==
  [ greeting |-> IF hour >= 5 /\ hour < 12 THEN "morning"
                 ELSE IF hour >= 12 /\ hour < 18 THEN "afternoon"
                 ELSE IF hour >= 18 /\ hour < 23 THEN "evening"
                 ELSE "night",
    name |-> prof.name,
    emoji |-> IF prof.useEmoji THEN "wave" ELSE "" ]

\* the Error of a method called before a profile is loaded
ProfileNotLoaded == "Profile not loaded. Call loadProfile() first."

\* what a call that has not returned a value leaves in ret
NoValue ==
  [ value |-> FALSE, text |-> "", result |-> "none", file |-> "none",
    before |-> NoProfile,
    serviceName |-> <<>>, errorType |-> <<>>, now |-> <<0, 0>> ]

\* a call of loadProfile on the file: this.profile is assigned after
\* validateProfile has returned, and left alone when anything before it throws
LoadProfileFile(file) ==
  /\ Idle
  /\ profile' = IF loadProfile(file) = "none" THEN file.profile ELSE profile
  /\ ret' = [ NoValue EXCEPT !.file = file, !.before = profile,
                             !.text = loadProfile(file) ]
            @@ [ fn |-> "loadProfile", rejected |-> loadProfile(file) # "none" ]
  /\ UNCHANGED <<envVars, ragVars, personalization, loadVars, embedReq, err, askVars,
                 hist, call, stream>>

\* a call of isRelevantToUser(serviceName, errorType)
IsRelevantToUser(serviceName, errorType) ==
  /\ Idle
  /\ ret' = [ NoValue EXCEPT
                !.value = IF notLoaded(profile) THEN FALSE
                          ELSE isRelevantToUser(profile, serviceName, errorType),
                !.text = IF notLoaded(profile) THEN ProfileNotLoaded ELSE "",
                !.serviceName = serviceName, !.errorType = errorType ]
            @@ [ fn |-> "isRelevantToUser", rejected |-> notLoaded(profile) ]
  /\ UNCHANGED <<envVars, ragVars, perVars, loadVars, embedReq, err, askVars, hist,
                 call, stream>>

\* a call of isWorkingHours() at the local time now
IsWorkingHours(now) ==
  /\ Idle
  /\ ret' = [ NoValue EXCEPT
                !.value = IF notLoaded(profile) THEN FALSE
                          ELSE isWorkingHours(profile, now),
                !.text = IF notLoaded(profile) THEN ProfileNotLoaded ELSE "",
                !.now = now ]
            @@ [ fn |-> "isWorkingHours", rejected |-> notLoaded(profile) ]
  /\ UNCHANGED <<envVars, ragVars, perVars, loadVars, embedReq, err, askVars, hist,
                 call, stream>>

\* a call of getGreeting() at the local hour
GetGreeting(hour) ==
  /\ Idle
  /\ ret' = [ NoValue EXCEPT
                !.result = IF notLoaded(profile) THEN "none"
                           ELSE getGreeting(profile, hour),
                !.text = IF notLoaded(profile) THEN ProfileNotLoaded ELSE "",
                !.now = << hour, 0 >> ]
            @@ [ fn |-> "getGreeting", rejected |-> notLoaded(profile) ]
  /\ UNCHANGED <<envVars, ragVars, perVars, loadVars, embedReq, err, askVars, hist,
                 call, stream>>

\* a call of getUserContext()
GetUserContext ==
  /\ Idle
  /\ ret' = [ NoValue EXCEPT
                !.result = IF notLoaded(profile) THEN "none" ELSE getUserContext(profile),
                !.text = IF notLoaded(profile) THEN ProfileNotLoaded ELSE "" ]
            @@ [ fn |-> "getUserContext", rejected |-> notLoaded(profile) ]
  /\ UNCHANGED <<envVars, ragVars, perVars, loadVars, embedReq, err, askVars, hist,
                 call, stream>>

\* a call of getProfile(): this.profile, null (NoProfile) before a load
GetProfile ==
  /\ Idle
  /\ ret' = [ NoValue EXCEPT !.result = profile ]
            @@ [ fn |-> "getProfile", rejected |-> FALSE ]
  /\ UNCHANGED <<envVars, ragVars, perVars, loadVars, embedReq, err, askVars, hist,
                 call, stream>>

NextPers ==
  \/ \E p \in ManagerProfiles : LoadProfileFile(ProfileFile(p))
  \/ \E file \in InvalidProfileFiles : LoadProfileFile(file)
  \/ \E serviceName \in { Name.auth, Name.authUpper, Name.au, Name.authz, Name.db, Name.oom },
        errorType \in { Name.oom, Name.oomMixed, Name.au, Name.auth } :
       IsRelevantToUser(serviceName, errorType)
  \/ \E now \in { <<7, 30>>, <<9, 0>>, <<10, 30>>, <<18, 0>>, <<18, 1>>, <<20, 15>> } :
       IsWorkingHours(now)
  \/ \E hour \in 0..23 : GetGreeting(hour)
  \/ GetUserContext
  \/ GetProfile

SpecPers == InitPers /\ [][NextPers]_vars

-----------------------------------------------------------------------------
(* SpecCli: CLI.start and CLI.interactiveMode, one session of the program *)

MaxInputs == 3      \* lines read by interactiveMode in a behaviour

\* the test of the loop with the input compared as it was typed
isExitCommandExact(line) ==
  line = <<101, 120, 105, 116>> \/ line = <<113, 117, 105, 116>>

\* interactiveMode: question.toLowerCase() === 'exit' ||
\* question.toLowerCase() === 'quit'
isExitCommand(line) ==
  LowerCase(line) = <<101, 120, 105, 116>> \/ LowerCase(line) = <<113, 117, 105, 116>>

\* new CLI() and the call of start(): nothing loaded, no model checked
InitCli ==
  /\ corpusFile \in CorpusContents
  /\ cacheFile = NoFile("absent")
  /\ allLogs = <<>>
  /\ embeddedLogs = <<>>
  /\ personalization = FALSE
  /\ profile = NoProfile
  /\ pc = "idle"
  /\ currentHash = Md5(NoContent)
  /\ loopI = 0
  /\ embedReq = <<>>
  /\ result = "none"
  /\ err = NoError
  /\ askPc = "idle"
  /\ question = <<>>
  /\ intent = "none"
  /\ answer = NoAnswer
  /\ askResult = "none"
  /\ askErr = NoError
  /\ chatReq = <<>>
  /\ hist = HistInit
  /\ call = [ fn |-> "start", pc |-> "profile", chat |-> FALSE, embedding |-> FALSE,
              input |-> <<>>, reads |-> 0 ]
  /\ stream = NoStream
  /\ ret = NoRet

\* start: loadProfile of config/profile.json; on success the manager is handed
\* to the RAGSystem and the greeting printed, on failure a notice is printed
CliLoadProfile(file) ==
  /\ call.pc = "profile"
  /\ IF loadProfile(file) = "none"
     THEN profile' = file.profile /\ personalization' = TRUE
     ELSE UNCHANGED <<profile, personalization>>
  /\ call' = [ call EXCEPT !.pc = "models" ]
  /\ UNCHANGED <<envVars, ragVars, loadVars, embedReq, err, askVars, hist, stream, ret>>

\* start: checkModels, and process.exit(1) when either model is missing
CliCheckModels(models) ==
  /\ call.pc = "models"
  /\ call' = [ call EXCEPT !.chat = models.chat, !.embedding = models.embedding,
                           !.pc = IF ~models.chat THEN "exited"
                                  ELSE IF ~models.embedding THEN "exited"
                                  ELSE "index" ]
  /\ UNCHANGED <<envVars, ragVars, perVars, loadVars, embedReq, err, askVars, hist,
                 stream, ret>>

\* start: loadAndIndexLogs has settled; process.exit(1) if it rejected, else the
\* statistics, the summary and the help are printed and interactiveMode begins
CliIndexed ==
  /\ call.pc = "index"
  /\ pc = "idle"
  /\ result # "none"
  /\ call' = [ call EXCEPT !.pc = IF result = "ok" THEN "prompt" ELSE "exited" ]
  /\ UNCHANGED <<envVars, ragVars, perVars, loadVars, embedReq, err, askVars, hist,
                 stream, ret>>

\* interactiveMode: a line is read; exit or quit closes readline and leaves the
\* loop, a blank line goes round again, any other line is asked
CliRead(line) ==
  /\ call.pc = "prompt"
  /\ call.reads < MaxInputs
  /\ call' = [ call EXCEPT !.input = line, !.reads = @ + 1,
                           !.pc = IF isExitCommand(line) THEN "ended"
                                  ELSE IF Trim(line) = <<>> THEN "prompt"
                                  ELSE "ask" ]
  /\ UNCHANGED <<envVars, ragVars, perVars, loadVars, embedReq, err, askVars, hist,
                 stream, ret>>

\* interactiveMode: await this.rag.askQuestion(...) has settled; the answer or
\* the caught error is printed and the loop goes round again
CliAnswered ==
  /\ call.pc = "ask"
  /\ askPc = "idle"
  /\ askResult # "none"
  /\ question' = <<>>
  /\ intent' = "none"
  /\ answer' = NoAnswer
  /\ askResult' = "none"
  /\ askErr' = NoError
  /\ hist' = [ hist EXCEPT !.askEmbeds = 0, !.askChats = 0 ]
  /\ stream' = NoStream
  /\ call' = [ call EXCEPT !.pc = "prompt" ]
  /\ UNCHANGED <<envVars, ragVars, perVars, loadVars, embedReq, err, askPc, chatReq, ret>>

NextCli ==
  \/ \E file \in { ProfileFile(p) : p \in Profiles }
                   \cup { [ ProfileFile(NoProfile) EXCEPT !.exists = FALSE ] } :
       CliLoadProfile(file)
  \/ \E models \in [ chat : BOOLEAN, embedding : BOOLEAN ] : CliCheckModels(models)
  \/ call.pc = "index" /\ result = "none" /\ LoadStart
  \/ LoadHash
  \/ LoadCheckCache
  \/ LoadRequest
  \/ \E v \in Vectors : LoadEmbedReturn(v)
  \/ LoadEmbedFail
  \/ LoadMkdir
  \/ \E o \in SaveOutcomes : LoadSave(o)
  \/ CliIndexed
  \* "", " ", "exit", "EXIT", "Quit", "exit ", "топ" and the question of the name
  \/ \E line \in { <<>>, <<32>>, <<101, 120, 105, 116>>, <<69, 88, 73, 84>>,
                   <<81, 117, 105, 116>>, <<101, 120, 105, 116, 32>>,
                   <<1090, 1086, 1087>>, Q.nameAsk } :
       CliRead(line)
  \/ call.pc = "ask" /\ Idle /\ AskQuestion(call.input, TRUE)
  \/ \E v \in Vectors : AskEmbedReturn(v)
  \/ AskEmbedFail
  \/ AskChatResponse
  \/ \E t \in ChatTexts : AskChatChunk(t)
  \/ \E t \in ChatTexts : AskChatReturn(t)
  \/ AskChatFail
  \/ CliAnswered

SpecCli == InitCli /\ [][NextCli]_vars

-----------------------------------------------------------------------------
(* Properties of loadAndIndexLogs, checked under Spec *)

\* the last loadAndIndexLogs call of this instance completed
LoadCompleted == pc = "idle" /\ result = "ok"

\* the last loadAndIndexLogs call of this instance rejected
LoadRejected == pc = "idle" /\ result = "rejected"

\* the last n records of the index are the records of the corpus, in order
IndexEndsWithCorpus ==
  /\ Len(embeddedLogs) >= Len(allLogs)
  /\ SubSeq(LogsOf(embeddedLogs), Len(embeddedLogs) - Len(allLogs) + 1, Len(embeddedLogs))
       = allLogs

\* C1 Cache round-trip: when a loadAndIndexLogs call completes whose cache file,
\* as the call began, was the entry an earlier completed call wrote, and whose
\* corpus file has the bytes that entry was fingerprinted from, the call has
\* issued no embedding request and the index equals, entry for entry and in the
\* same order, the index of the call that wrote the entry.
C1_CacheRoundTrip ==
  ( /\ LoadCompleted
    /\ hist.startSaved.valid
    /\ hist.readContent = hist.startSaved.content
    /\ hist.hashContent = hist.startSaved.content )
  => ( /\ hist.embedCalls = 0
       /\ embeddedLogs = hist.startSaved.index )

\* a second run over the same bytes has taken a non-empty index from the cache
C1_Witness ==
  /\ LoadCompleted
  /\ hist.startSaved.valid
  /\ hist.readContent = hist.startSaved.content
  /\ hist.hashContent = hist.startSaved.content
  /\ hist.cacheHit
  /\ Len(embeddedLogs) = 2
  /\ hist.runs >= 2

\* C2 Cache validity: the cache entry is used only if its fingerprint equals the
\* fingerprint of the current corpus file; and when the corpus content differs
\* from the content the entry was written for, the completed call has discarded
\* the entry, has requested an embedding for every record of the corpus, and no
\* entry of the resulting index comes from the cache.
C2_CacheValidity ==
  /\ hist.cacheHit =>
       /\ hist.cacheBefore.kind = "json"
       /\ hist.cacheBefore.fileHash = Md5(hist.hashContent)
  /\ ( /\ LoadCompleted
       /\ hist.cacheBefore.kind = "json"
       /\ hist.cacheBefore.fileHash # Md5(hist.hashContent) )
     => ( /\ ~hist.cacheHit
          /\ hist.embedCalls = Len(allLogs)
          /\ hist.fromCache = 0 )

\* C3 Index completeness and order: after every loadAndIndexLogs call that
\* completes, the index has exactly one embedded record per corpus record and
\* the i-th embedded record holds the i-th corpus record.
C3_IndexCompleteOrdered ==
  LoadCompleted => LogsOf(embeddedLogs) = allLogs

\* C4 A failed run writes no cache entry: the step on which a loadAndIndexLogs
\* call rejects carries the error of the embedding request to the caller and
\* leaves the cache file what it was when the call began.
C4_FailedRunWritesNoCache ==
  [][ (pc # "idle" /\ pc' = "idle" /\ result' = "rejected")
      => ( /\ err' = EmbeddingError
           /\ cacheFile' = cacheFile
           /\ cacheFile' = hist.cacheBefore ) ]_vars

\* a run has rejected on its second record, with an entry in the cache file
C4_Witness ==
  /\ LoadRejected
  /\ hist.embedCalls = 2
  /\ cacheFile.kind = "json"

\* C5 No partial index after a failed run: when a loadAndIndexLogs call has
\* rejected, the index holds none of the records that call embedded before the
\* failure (it is empty, or what it was when the call began).
C5_NoPartialIndex ==
  LoadRejected => (embeddedLogs = <<>> \/ embeddedLogs = hist.indexBefore)

\* C6 A cache write failure is not fatal: when saveCache has failed, the call
\* has completed without throwing, the index holds every record of the corpus,
\* a question can be asked, and no new entry is in the cache file.
C6_CacheWriteFailureNonFatal ==
  (pc = "idle" /\ hist.saveStatus = "failed")
  => ( /\ result = "ok"
       /\ IndexEndsWithCorpus
       /\ Idle => ENABLED (\E q \in SessionQuestions : AskQuestion(q, TRUE))
       /\ cacheFile.kind = "json" => cacheFile = hist.cacheBefore )

\* a question has been answered in a session whose cache write failed
C6_Witness ==
  /\ pc = "idle"
  /\ hist.saveStatus = "failed"
  /\ Len(allLogs) = 2
  /\ askResult = "ok"
  /\ answer.kind = "chat"

\* C7 Cache load never fails the run: no loadAndIndexLogs call rejects with
\* anything but the error of an embedding request, and a call that completes on
\* an absent, unreadable or unparsable cache file has requested the embedding of
\* every record of the corpus and holds them at the end of the index.
C7_CacheLoadNeverFails ==
  /\ result = "rejected" => err = EmbeddingError
  /\ (LoadCompleted /\ hist.cacheBefore.kind # "json")
     => ( /\ ~hist.cacheHit
          /\ hist.embedCalls = Len(allLogs)
          /\ IndexEndsWithCorpus )

\* a run has completed on an unparsable cache file and embedded two records
C7_Witness ==
  /\ LoadCompleted
  /\ hist.cacheBefore.kind = "unparsable"
  /\ hist.embedCalls = 2

\* the embedded record the loop stores for a record of the corpus
PairOf(log) ==
  [ log |-> log,
    embedding |-> EmbeddingOf(EmbedRequest("record", logToText(log))),
    text |-> logToText(log) ]

\* C25 Sequential indexing: while the loop of loadAndIndexLogs runs, at most one
\* embedding request is outstanding; the request of record i + 1 is issued
\* only when the responses of records 1..i have been received and stored; the
\* requests are issued in the order of the corpus; and each record the loop
\* has stored pairs a record of the corpus with the embedding returned for the
\* text of that same record.
C25_SequentialIndexing ==
  pc \in { "loop", "await" } =>
    /\ loopI <= Len(allLogs)
    /\ Len(embedReq) = IF pc = "await" THEN 1 ELSE 0
    /\ hist.embedCalls = Len(embedReq) + loopI
    /\ pc = "await" =>
         /\ loopI < Len(allLogs)
         /\ embedReq[1] = EmbedRequest("record", logToText(allLogs[loopI + 1]))
    /\ Len(embeddedLogs) >= loopI
    /\ \A k \in 1..loopI :
         embeddedLogs[Len(embeddedLogs) - loopI + k] = PairOf(allLogs[k])

\* the request of the second record is outstanding and the first record is stored
C25_Witness ==
  /\ pc = "await"
  /\ loopI = 1
  /\ Len(embedReq) = 1
  /\ embedReq[1].text = logToText(allLogs[2])
  /\ allLogs[1] # allLogs[2]
  /\ embeddedLogs[Len(embeddedLogs)] = PairOf(allLogs[1])

\* C26 Fingerprint and content of a written cache entry: the entry saveCache
\* writes stores the fingerprint of a corpus content with the very records its
\* embedded records were parsed from, also when the corpus file is rewritten
\* between the read that parses it and the read that fingerprints it; hence a
\* run that accepts a cache entry gets the records of the content it
\* fingerprinted.
C26_FingerprintOfParsedContent ==
  /\ (hist.saveStatus = "written" /\ hist.saved.valid) =>
       JsonParseCorpus(hist.saved.content) = JsonParseCorpus(hist.readContent)
  /\ (LoadCompleted /\ hist.cacheHit) =>
       LogsOf(embeddedLogs) = JsonParseCorpus(hist.hashContent)

-----------------------------------------------------------------------------
(* Properties of askQuestion, checked under SpecAsk *)

\* an askQuestion call has classified its question
Asked == intent # "none"

\* the profile the question asked has been answered for
AskedProfile == getProfile(personalization, profile)

\* the call has returned an answer askQuestion built itself, and neither an
\* embedding request nor a chat request was issued for the question
AnsweredWithoutRetrieval ==
  /\ askPc = "idle"
  /\ askResult = "ok"
  /\ answer.kind \in { "name", "nameNotSet", "personal" }
  /\ hist.askEmbeds = 0
  /\ hist.askChats = 0
  /\ embedReq = <<>>
  /\ chatReq = <<>>

\* the answer askQuestion builds itself for the question asked and the profile
\* it has read, were `logs` the loaded corpus
DirectAnswer(logs) ==
  IF Tested[question].isNameQuery THEN nameAnswer(AskedProfile)
  ELSE personalAnswer(personalization, AskedProfile, logs)

\* the answer was built without retrieval and from the profile alone: it is the
\* answer the question gets with this profile whichever corpus is loaded
AnsweredFromProfile ==
  /\ AnsweredWithoutRetrieval
  /\ \A c \in CorpusContents : answer = DirectAnswer(JsonParseCorpus(c))

\* C8 Classifier precedence: a question that matches both the name pattern and
\* the statistical pattern, and the question "как меня зовут и сколько всего
\* ошибок" in particular, takes the name branch and gets the name answer.
C8_NamePrecedence ==
  ( /\ Asked
    /\ \/ Tested[question].isNameQuery /\ Tested[question].isStatisticalQuery
       \/ question = MixedQuestion )
  => ( /\ intent = "NameLookup"
       /\ answer.kind \in { "name", "nameNotSet" } )

\* C9 as claimed: for every question that matches the name pattern or the
\* personal-profile pattern, with or without a loaded profile, askQuestion
\* issues no embedding request and no chat request and answers from profile
\* data only.
C9_RetrievalSkipped ==
  ( /\ Asked
    /\ Tested[question].isNameQuery \/ Tested[question].isPersonalQuery )
  => AnsweredFromProfile

\* C9 as amended: a question that matches the name pattern, with or without a
\* loaded profile, is answered with no embedding request and no chat request
\* and from the profile alone (the answer is the same whichever corpus is
\* loaded). A question that matches the personal-profile pattern and not the
\* name pattern, asked while a manager with a loaded profile is attached, is
\* answered with no embedding request and no chat request, by the lines built
\* from the profile fields followed by the summary line of
\* getPersonalizedSummary, which counts the records of the whole loaded corpus
\* that concern the user. Asked with no loaded profile, such a question takes
\* the retrieval path like any other question: its embedding is requested.
C9_RetrievalSkippedWithProfile ==
  /\ (Asked /\ Tested[question].isNameQuery) => AnsweredFromProfile
  /\ ( /\ Asked
       /\ ~Tested[question].isNameQuery
       /\ Tested[question].isPersonalQuery )
     => IF personalization /\ profile.loaded
        THEN /\ AnsweredWithoutRetrieval
             /\ answer = personalAnswer(TRUE, profile, allLogs)
        ELSE /\ intent \in { "Statistical", "Analytical" }
             /\ answer.kind \notin { "name", "nameNotSet", "personal" }
             /\ hist.askEmbeds = 1

\* a personal question has been answered for a loaded profile over a corpus
\* that holds records of the user's services: no request was issued, and the
\* answer is not the one the same profile gets over an empty corpus
C9_Witness ==
  /\ Asked
  /\ Tested[question].isPersonalQuery
  /\ ~Tested[question].isNameQuery
  /\ personalization /\ profile.loaded
  /\ AnsweredWithoutRetrieval
  /\ answer.kind = "personal"
  /\ Len(RelevantLogs(profile, allLogs)) > 0
  /\ answer # personalAnswer(TRUE, profile, <<>>)

\* C10 Classification depends only on the normalized question: every question
\* with the normalized form of the question just asked takes the branch that
\* question took.
C10_NormalizedClassification ==
  Asked =>
    \A q2 \in Questions :
      Tested[q2].q = Tested[question].q
        => askBranch(q2, personalization, profile) = intent

\* C11 Statistical isolation: the chat request of a question classified
\* Statistical is in the statistics mode; its system prompt holds the aggregate
\* statistics of the loaded corpus and no line about retrieved records, and its
\* user message holds the question and no rendered record.
C11_StatisticalIsolation ==
  /\ (intent = "Statistical" /\ askPc = "chat") => chatReq # <<>>
  /\ \A k \in 1..Len(chatReq) :
       /\ (chatReq[k].systemPrompt.mode = "STATISTICS") = (intent = "Statistical")
       /\ intent = "Statistical" =>
            /\ chatReq[k].systemPrompt.statistics \in getStatistics(allLogs)
            /\ chatReq[k].systemPrompt.statistics.total = Len(allLogs)
            /\ chatReq[k].systemPrompt.contextLogs = <<>>
            /\ chatReq[k].userMessage.logExamples = <<>>
            /\ chatReq[k].userMessage.question = TrimEnd(question)

\* a statistical question is at the chat model, with two records in the index
C11_Witness ==
  /\ intent = "Statistical"
  /\ askPc = "chat"
  /\ chatReq # <<>>
  /\ Len(embeddedLogs) = 2

-----------------------------------------------------------------------------
(* Properties of getStatistics, checked under SpecStats *)

\* the number of records of the loaded corpus whose field has the value
CountOf(field, value) == Cardinality({ k \in 1..Len(allLogs) : allLogs[k][field] = value })

RECURSIVE SumOfCounts(_)
SumOfCounts(table) ==
  IF table = <<>> THEN 0 ELSE table[1].n + SumOfCounts(Tail(table))

\* the table lists every value of the field with the number of its records, its
\* counts are numbers that sum to the total, and it is in non-increasing order
TableIsRight(table, field) ==
  /\ \A k \in 1..Len(allLogs) :
       \E r \in 1..Len(table) :
         /\ table[r].key = allLogs[k][field]
         /\ table[r].number
         /\ table[r].n = CountOf(field, table[r].key)
  /\ \A r \in 1..Len(table) : table[r].number
  /\ SumOfCounts(table) = Len(allLogs)
  /\ \A r \in 1..(Len(table) - 1) : table[r].n >= table[r + 1].n

\* C12 Aggregate statistics: what getStatistics returns is computed from the
\* loaded corpus: the total is the number of records, each error type and each
\* service is listed with the number of records that have it, the counts of a
\* table sum to the total, and each table is in non-increasing order of count.
C12_StatisticsAreCounts ==
  ret.fn = "getStatistics" =>
    /\ ret.value.total = Len(allLogs)
    /\ TableIsRight(ret.value.errorTypes, "error_type")
    /\ TableIsRight(ret.value.services, "service")

-----------------------------------------------------------------------------
(* Properties of findRelevantLogs, checked under SpecRank *)

\* findRelevantLogs has returned
Found == ret.fn = "findRelevantLogs" /\ ~ret.rejected

\* the score of the record at a position of the index, for the question of the call
ScoreAt(pos) == Similarity(ret.questionEmbedding, embeddedLogs[pos].embedding)

\* x > y and x = y of two scores as numbers; both are false when either is NaN
Greater(x, y) == ~x.nan /\ ~y.nan /\ Compare(x, y) > 0
Equal(x, y) == ~x.nan /\ ~y.nan /\ Compare(x, y) = 0

\* C13 Rank length: findRelevantLogs returns exactly min(topK, number of indexed
\* records) records, each the record of a position of the index, no position
\* twice; askQuestion asks for 8.
C13_RankLength ==
  /\ AskTopK = 8
  /\ Found =>
       /\ Len(ret.logs) = Min(ret.topK, Len(embeddedLogs))
       /\ Len(ret.order) = Len(ret.logs)
       /\ \A k \in 1..Len(ret.order) :
            /\ ret.order[k] \in 1..Len(embeddedLogs)
            /\ ret.logs[k] = embeddedLogs[ret.order[k]].log
       /\ \A k, m \in 1..Len(ret.order) : ret.order[k] = ret.order[m] => k = m

\* the index has more records than asked for, and the call returned topK of them
C13_Witness ==
  /\ Found
  /\ ret.topK = 2
  /\ Len(embeddedLogs) = 3
  /\ Len(ret.logs) = 2

\* C14 Ranking order and tie-break: what findRelevantLogs returns is the
\* sequence fixed by the scores and the index: a returned record scores higher
\* than every record after it, or the same with an earlier place in the index,
\* and no record left out scores higher than a returned one or the same from an
\* earlier place.
C14_RankOrder ==
  Found =>
    \A k \in 1..Len(ret.order) :
      \A pos \in 1..Len(embeddedLogs) :
        (pos # ret.order[k] /\ \A m \in 1..k : ret.order[m] # pos)
        => \/ Greater(ScoreAt(ret.order[k]), ScoreAt(pos))
           \/ Equal(ScoreAt(ret.order[k]), ScoreAt(pos)) /\ ret.order[k] < pos

\* C15 Zero-magnitude guard: a record whose score is undefined (its vector or
\* the question's has zero magnitude) is returned only after every record with
\* a defined score, and the records with a defined score are returned in the
\* order they have without it.
C15_ZeroMagnitudeLowest ==
  Found =>
    /\ \A k \in 1..Len(ret.order) :
         ScoreAt(ret.order[k]).nan =>
           \A pos \in 1..Len(embeddedLogs) :
             ~ScoreAt(pos).nan => \E m \in 1..(k - 1) : ret.order[m] = pos
    /\ \A k \in 1..Len(ret.order) :
         ~ScoreAt(ret.order[k]).nan =>
           \A pos \in 1..Len(embeddedLogs) :
             (~ScoreAt(pos).nan /\ \A m \in 1..k : ret.order[m] # pos)
             => \/ Greater(ScoreAt(ret.order[k]), ScoreAt(pos))
                \/ Equal(ScoreAt(ret.order[k]), ScoreAt(pos)) /\ ret.order[k] < pos

-----------------------------------------------------------------------------
(* Properties of askQuestion without a profile and of failed questions *)

\* no manager is attached, or the attached manager has no profile loaded
Depersonalized == ~getProfile(personalization, profile).loaded

\* C16 Depersonalized mode: while no profile is loaded, askQuestion does not
\* fail for want of the profile, whatever the question: a rejection carries the
\* error of the embedding or of the chat request, a prompt carries no user
\* context, and an answer is the 'name not set' message or the chat model's.
C16_DepersonalizedSupported ==
  Depersonalized =>
    /\ askResult = "rejected" => askErr \in { EmbeddingError, ChatError }
    /\ \A k \in 1..Len(chatReq) : ~chatReq[k].systemPrompt.userContext.given
    /\ answer.kind \in { "none", "nameNotSet", "chat" }

\* C17 A failed question is fatal only for that question: the step on which an
\* askQuestion call rejects carries the error of the failed request (of the
\* embedding request while the embedding is awaited, of the chat request while
\* the answer is awaited) and changes neither the corpus file, the cache file,
\* the loaded corpus, the index nor the profile; and once the caller has the
\* outcome, the next question can be asked.
C17_FailedQuestionNotFatal ==
  [][ /\ (askPc # "idle" /\ askPc' = "idle" /\ askResult' = "rejected")
         => /\ askErr' = (IF askPc = "embed" THEN EmbeddingError ELSE ChatError)
            /\ UNCHANGED <<corpusFile, cacheFile, allLogs, embeddedLogs,
                           personalization, profile>>
      /\ (askResult = "rejected" /\ askResult' = "none")
         => /\ Idle'
            /\ UNCHANGED <<corpusFile, cacheFile, allLogs, embeddedLogs,
                           personalization, profile>> ]_vars

\* a question has been rejected by a failure of the chat request, with two
\* records in the index and an entry in the cache file
C17_Witness ==
  /\ askPc = "idle"
  /\ askResult = "rejected"
  /\ askErr = ChatError
  /\ Len(embeddedLogs) = 2
  /\ cacheFile.kind = "json"

-----------------------------------------------------------------------------
(* Properties of OllamaClient.chat, checked under SpecChat *)

\* the chunks joined in the order given
RECURSIVE Concatenation(_)
Concatenation(chunks) ==
  IF chunks = <<>> THEN <<>>
  ELSE IF Len(chunks) = 1 THEN chunks[1]
  ELSE LET half == Len(chunks) \div 2
       IN  Concatenation(SubSeq(chunks, 1, half))
           \o Concatenation(SubSeq(chunks, half + 1, Len(chunks)))

\* C18 Token streaming order: during and after a chat call that was given
\* onToken, the calls of onToken are the chunks read so far, one call per chunk
\* and in the order of arrival, so each chunk is handed over before the next is
\* read; a call that returns returns the concatenation of the chunks received;
\* a call that rejects after some chunks has handed those chunks over.
C18_TokenStreaming ==
  /\ (call.fn = "chat" /\ call.onToken) =>
       /\ stream.tokens = stream.received
       /\ stream.fullResponse = Concatenation(stream.received)
  /\ (ret.fn = "chat" /\ ret.onToken) => stream.tokens = stream.received
  /\ (ret.fn = "chat" /\ ~ret.rejected) => ret.value = Concatenation(stream.received)
  /\ (ret.fn = "chat" /\ ret.rejected) => ret.error = ChatError

\* a chat call given onToken has rejected after two chunks
C18_Witness ==
  /\ ret.fn = "chat"
  /\ ret.rejected
  /\ ret.onToken
  /\ Len(stream.received) = 2
  /\ stream.received[1] # stream.received[2]

\* C23 as claimed: a question classified NameLookup is answered with the
\* profile name and nothing else when a profile with a non-empty name is
\* loaded, and with the 'name not set' message otherwise, whatever the
\* preferences of the profile are.
C23_NameOnly ==
  (Asked /\ intent = "NameLookup") =>
    /\ askResult = "ok"
    /\ answer.text = IF AskedProfile.loaded /\ AskedProfile.name # <<>>
                     THEN AskedProfile.name
                     ELSE Literal.nameNotSet

\* C23 amended: a question classified NameLookup is answered with the profile
\* name, preceded by the person emoji and a space exactly when
\* preferences.useEmoji is set, when a profile with a non-empty name is loaded,
\* and with the 'name not set' message alone otherwise.
C23_NameWithEmojiPreference ==
  (Asked /\ intent = "NameLookup") =>
    /\ askResult = "ok"
    /\ answer.text = IF AskedProfile.loaded /\ AskedProfile.name # <<>>
                     THEN IF AskedProfile.useEmoji
                          THEN <<55357, 56420, 32>> \o AskedProfile.name
                          ELSE AskedProfile.name
                     ELSE Literal.nameNotSet

\* the name question was answered for a profile that sets useEmoji
C23_Witness ==
  /\ Asked
  /\ intent = "NameLookup"
  /\ AskedProfile.loaded
  /\ AskedProfile.name # <<>>
  /\ AskedProfile.useEmoji
  /\ answer.kind = "name"

\* the text an answered askQuestion call has returned, in code units
Returned == answer.text

\* a step on which onToken is called: the calls made for the question grow
\* (the calls are cleared when the caller has taken the outcome of the call)
OnTokenCalled == Len(stream'.tokens) > Len(stream.tokens)

\* C27 Streamed output equals returned output: when an askQuestion call given
\* onToken has returned, on the name, personal-profile, statistical and
\* analytical paths alike, the strings passed to onToken, joined in the order
\* of the calls, are the returned text; and onToken is not called once the
\* call has returned: every step that calls onToken is a step of a call that
\* has not returned yet (the first step of askQuestion, which makes the calls
\* of the name and personal branches before its return statement, or a chunk
\* of the chat stream), the step on which chat returns after its stream has
\* ended calls nothing, and once the call has returned or rejected the calls
\* made for it stay as they are until the caller has taken the outcome.
C27_StreamedEqualsReturned ==
  /\ [] ( (askResult = "ok" /\ stream.onToken) => Concatenation(stream.tokens) = Returned )
  /\ [] ( ~stream.onToken => stream.tokens = <<>> )
  /\ [][ OnTokenCalled =>
           /\ stream'.onToken
           /\ askResult = "none"
           /\ \/ askPc = "idle" /\ stream.tokens = <<>> /\ askResult' = "ok"
              \/ askPc = "stream" /\ askPc' = "stream" /\ askResult' = "none"
                 /\ Len(stream'.tokens) = Len(stream.tokens) + 1 ]_vars
  /\ [][ (askPc = "stream" /\ askResult' = "ok") => stream'.tokens = stream.tokens ]_vars
  /\ [][ askResult # "none" => (stream'.tokens = stream.tokens \/ stream' = NoStream) ]_vars

\* the personal answer of a profile that sets useEmoji has been streamed and
\* returned: one call for each code unit, the emoji as two calls
C27_Witness ==
  /\ askResult = "ok"
  /\ intent = "PersonalProfile"
  /\ answer.kind = "personal"
  /\ stream.onToken
  /\ Len(stream.tokens) = Len(answer.text)
  /\ Len(stream.tokens) > 100
  /\ stream.tokens[1] = << 55357 >>
  /\ stream.tokens[2] = << 56420 >>

-----------------------------------------------------------------------------
(* Properties of PersonalizationManager, checked under SpecPers *)

\* two names are the same but for the case of their letters
SameIgnoringCase(a, b) ==
  /\ Len(a) = Len(b)
  /\ \A k \in 1..Len(a) : Canonicalize(a[k]) = Canonicalize(b[k])

\* C19 isRelevantToUser is true exactly when the service name is, but for the
\* case of letters, an entry of the profile's services, or the error type is,
\* but for the case of letters, an entry of its critical errors; a name that is
\* only a part of an entry, or has an entry as a part, does not match.
C19_RelevantIffListed ==
  (ret.fn = "isRelevantToUser" /\ ~ret.rejected) =>
    ( ret.value <=>
        \/ \E k \in 1..Len(profile.services) :
             SameIgnoringCase(profile.services[k], ret.serviceName)
        \/ \E k \in 1..Len(profile.criticalErrors) :
             SameIgnoringCase(profile.criticalErrors[k], ret.errorType) )

\* "auth" matched the entry "AUTH" of the services and no critical error
C19_Witness ==
  /\ ret.fn = "isRelevantToUser"
  /\ ~ret.rejected
  /\ ret.value
  /\ ret.serviceName = Name.auth
  /\ profile.services = << Name.db, Name.authUpper >>
  /\ profile.criticalErrors = <<>>

\* the minutes since midnight a time of day "H:MM" or "HH:MM" stands for
RECURSIVE DigitsValue(_)
DigitsValue(digits) ==
  IF digits = <<>> THEN 0
  ELSE 10 * DigitsValue(SubSeq(digits, 1, Len(digits) - 1)) + (digits[Len(digits)] - 48)
MinutesOf(time) ==
  LET colon == CHOOSE k \in 1..Len(time) : time[k] = 58
  IN  60 * DigitsValue(SubSeq(time, 1, colon - 1))
        + DigitsValue(SubSeq(time, colon + 1, Len(time)))

\* C20 isWorkingHours is true exactly when the local time of day lies between
\* workingHours.start and workingHours.end of the loaded profile, both
\* inclusive, for every start and end the profile loader accepts.
C20_WorkingHoursInclusive ==
  (ret.fn = "isWorkingHours" /\ ~ret.rejected) =>
    ( ret.value <=>
        /\ MinutesOf(profile.workingHours.start) <= 60 * ret.now[1] + ret.now[2]
        /\ 60 * ret.now[1] + ret.now[2] <= MinutesOf(profile.workingHours.end) )

\* the checks of loadProfile in their order; TRUE where the file fails the check
FailedChecks(file) ==
  << ~file.exists,
     ~file.syntaxOk,
     file.kind \in { "null", "number" } >>
  \o << file.kind = "array" \/ "name" \notin file.fields,
        file.kind = "array" \/ "role" \notin file.fields,
        file.kind = "array" \/ "experience" \notin file.fields,
        file.kind = "array" \/ "timezone" \notin file.fields,
        file.kind = "array" \/ "preferences" \notin file.fields,
        file.kind = "array" \/ "responsibilities" \notin file.fields,
        file.kind = "array" \/ "workingHours" \notin file.fields >>
  \o << file.preferences \in { "string", "null" },
        file.responsibilities \in { "string", "null" },
        ~file.servicesIsArray,
        ~file.criticalErrorsIsArray >>

\* the message of each check, in the same order
CheckMessages ==
  << "Profile file not found",
     "Invalid JSON in profile file",
     "Failed to load profile: Profile must be an object" >>
  \o << "Failed to load profile: Missing required field: name",
        "Failed to load profile: Missing required field: role",
        "Failed to load profile: Missing required field: experience",
        "Failed to load profile: Missing required field: timezone",
        "Failed to load profile: Missing required field: preferences",
        "Failed to load profile: Missing required field: responsibilities",
        "Failed to load profile: Missing required field: workingHours" >>
  \o << "Failed to load profile: Invalid preferences structure",
        "Failed to load profile: Invalid responsibilities structure",
        "Failed to load profile: responsibilities.services must be an array",
        "Failed to load profile: responsibilities.criticalErrors must be an array" >>

\* C21 loadProfile installs the profile of the file only if the file passes
\* every check; otherwise it rejects with the message of the first check the
\* file fails, in the fixed order of the checks, and the profile getProfile
\* returns is the one it returned before the call.
C21_LoadProfileFirstFailure ==
  ret.fn = "loadProfile" =>
    LET checks == FailedChecks(ret.file)
        failed == { k \in 1..Len(checks) : checks[k] }
    IN  IF failed = {}
        THEN ~ret.rejected /\ profile = ret.file.profile
        ELSE /\ ret.rejected
             /\ ret.text = CheckMessages[CHOOSE k \in failed : \A j \in failed : k <= j]
             /\ profile = ret.before

\* a file without "role" and "preferences", whose services are no array, was
\* rejected for the missing role while a profile was loaded
C21_Witness ==
  /\ ret.fn = "loadProfile"
  /\ ret.rejected
  /\ ret.text = "Failed to load profile: Missing required field: role"
  /\ ~ret.file.servicesIsArray
  /\ ret.file.preferences = "null"
  /\ ret.before.loaded
  /\ profile = ret.before

\* the methods that need a profile
ProfileMethods == { "getGreeting", "getUserContext", "isRelevantToUser", "isWorkingHours" }

\* C22 Until a loadProfile has succeeded, getProfile returns null and each of
\* getGreeting, getUserContext, isRelevantToUser and isWorkingHours throws
\* 'Profile not loaded. Call loadProfile() first.'; a profile is installed by a
\* successful loadProfile only, and once one is installed none of the four
\* throws that error again, whatever is called or loaded afterwards.
C22_ProfileGuard ==
  /\ [] ( /\ ret.fn \in ProfileMethods =>
               /\ ret.rejected <=> (profile = NoProfile)
               /\ ret.rejected => ret.text = ProfileNotLoaded
               /\ ~ret.rejected => ret.text # ProfileNotLoaded
          /\ ret.fn = "getProfile" => ret.result = profile )
  /\ [][ /\ profile # NoProfile => profile' # NoProfile
         /\ (profile = NoProfile /\ profile' # NoProfile)
              => (ret'.fn = "loadProfile" /\ ~ret'.rejected)
         /\ (ret'.fn = "loadProfile" /\ ~ret'.rejected) => profile' # NoProfile ]_vars

\* getGreeting threw before any profile was loaded
C22_Witness ==
  /\ ret.fn = "getGreeting"
  /\ ret.rejected
  /\ ret.text = ProfileNotLoaded
  /\ profile = NoProfile

\* C24 getGreeting chooses the greeting by the local hour alone: hours 5..11
\* give the morning greeting, 12..17 the afternoon greeting, 18..22 the evening
\* greeting, 23 and 0..4 the night greeting, so that every hour of 0..23 has
\* exactly one; the emoji follows exactly when preferences.useEmoji is true.
C24_GreetingBuckets ==
  (ret.fn = "getGreeting" /\ ~ret.rejected) =>
    LET hour == ret.now[1]
        bucket == [ morning |-> 5..11, afternoon |-> 12..17, evening |-> 18..22,
                    night |-> { 23 } \cup 0..4 ]
    IN  /\ hour \in bucket[ret.result.greeting]
        /\ \A g \in DOMAIN bucket : hour \in bucket[g] => g = ret.result.greeting
        /\ (ret.result.emoji # "") <=> profile.useEmoji
        /\ ret.result.name = profile.name

\* the night greeting at 23 o'clock for a profile that wants the emoji
C24_Witness ==
  /\ ret.fn = "getGreeting"
  /\ ~ret.rejected
  /\ ret.now[1] = 23
  /\ ret.result.greeting = "night"
  /\ ret.result.emoji = "wave"

-----------------------------------------------------------------------------
(* Properties of the CLI session, checked under SpecCli *)

\* the line is exit or quit in some letter case
IsExitWord(line) ==
  \/ SameIgnoringCase(line, <<69, 88, 73, 84>>)
  \/ SameIgnoringCase(line, <<81, 85, 73, 84>>)

\* the line has white space only
IsBlank(line) == \A k \in 1..Len(line) : IsSpace(line[k])

\* interactiveMode has been entered
LoopEntered == call.pc \in { "prompt", "ask", "ended" }

\* a step on which a line is read, and one on which askQuestion is called
ReadStep == call'.reads = call.reads + 1
AskStep == intent = "none" /\ intent' # "none"

\* C28 The loop of interactiveMode is entered only when both models were found
\* and loadAndIndexLogs has succeeded. In the loop a line that is not blank and
\* is not exit or quit leads to one askQuestion call, of that line, and the
\* next line is read when that call has settled; a blank line leads to none;
\* after exit or quit, in any letter case, the loop has ended and nothing
\* follows.
C28_SessionLoop ==
  /\ [] ( /\ LoopEntered =>
               /\ call.chat /\ call.embedding
               /\ pc = "idle" /\ result = "ok" /\ hist.runs = 1
          /\ (intent # "none" \/ askPc # "idle" \/ askResult # "none") =>
               /\ call.pc = "ask"
               /\ question = call.input
               /\ ~IsBlank(call.input) /\ ~IsExitWord(call.input) )
  /\ [][ /\ ReadStep =>
              /\ call.pc = "prompt"
              /\ call'.pc = IF IsExitWord(call'.input) THEN "ended"
                            ELSE IF IsBlank(call'.input) THEN "prompt"
                            ELSE "ask"
              /\ ~AskStep
         /\ AskStep => (call.pc = "ask" /\ question' = call.input)
         /\ (call.pc = "ask" /\ intent # "none") =>
              (intent' # "none" \/ call'.pc = "prompt")
         /\ (call.pc = "ask" /\ call'.pc # "ask") =>
              (call'.pc = "prompt" /\ askResult # "none")
         /\ call.pc \notin { "ended", "exited" } ]_vars

\* the session has ended on the input EXIT, the third line read
C28_Witness ==
  /\ call.fn = "start"
  /\ call.pc = "ended"
  /\ call.input = <<69, 88, 73, 84>>
  /\ call.reads = 3
  /\ personalization

====
